---- MODULE Spec2Model ----
(***************************************************************************)
(* Verification model of offmute-server: media decomposition               *)
(* (processAudioFile, extractVideoScreenshots, generateScreenshots), the   *)
(* description stage (generateDescription), the transcription stage        *)
(* (generateTranscription), the report stage (generateReport), the chunked *)
(* upload routes, the job routes of the server (POST /api/process and the  *)
(* job queries), generateWithGemini, one generation attempt with several   *)
(* files, cleanupOldJobs, the rate limiter, sendSSE and the parameters of  *)
(* a streaming job.                                                        *)
(*                                                                         *)
(* Text is modelled as a sequence of atoms: the atom "\n" is a line break  *)
(* and every other atom is a run of characters without a line break, so    *)
(* string concatenation is \o and split/trim/replace/indexOf are computed  *)
(* on the atoms.  Times are in seconds.  File-system calls are taken to    *)
(* succeed; generation calls and ffmpeg/ffprobe calls may fail.            *)
(***************************************************************************)
EXTENDS Integers, Sequences, FiniteSets, TLC

(***************************************************************************)
(* Bounds of the model                                                     *)
(***************************************************************************)
MaxDurationSteps == 24
MaxChunkMinutes == 5
MaxOverlapMinutes == 2
MaxScreenshots == 5
MaxTranscriptChunks == 3
MaxSections == 2
MaxParts == 2
MaxDeliveries == 3
MaxHours == 3
MaxPolls == 2
MaxAttempts == 3
MaxDays == 9
MaxFiles == 3
MaxRequests == 12
MaxTicks == 2
MaxTextBlocks == 21
MaxChunkLoop == 16

(***************************************************************************)
(* Program constants                                                       *)
(***************************************************************************)
ContextLines == 20
TranscriptionMaxRetries == 3
DefaultOverlapMinutes == 1
UploadPartSize == 5120
MaxFileSize == 2097152
AbandonedAfterHours == 2
DefaultRetryDelayMs == 2000
JOB_RETENTION_DAYS == 7
ONE_DAY == 24 * 60 * 60 * 1000
windowMs == 60000
maxRequestsPerWindow == 10
FrameThreshold == 10000
FieldThreshold == 1000
InstructionsLimit == 2000

\* the day the server starts, in days since 1970-01-01 (a day of 2024)
ServerStartDay == 55 * 365

NL == "\n"

(***************************************************************************)
(* String helpers (JavaScript String/Array methods on atom sequences)      *)
(***************************************************************************)
RECURSIVE TrimStart(_)
TrimStart(s) ==
  IF s = <<>> THEN s
  ELSE IF Head(s) \in {NL, " "} THEN TrimStart(Tail(s)) ELSE s

RECURSIVE TrimEnd(_)
TrimEnd(s) ==
  IF s = <<>> THEN s
  ELSE IF s[Len(s)] \in {NL, " "} THEN TrimEnd(SubSeq(s, 1, Len(s) - 1)) ELSE s

Trim(s) == TrimEnd(TrimStart(s))

\* the atoms in which the regular expression /~\[/ matches
IsSpeakerAtom(a) == a \in {"~[Alice]~: hello", "~[Bob]~: (hesitant) ok"}

\* text.replace(/~\[/g, "\n\n~[")
RECURSIVE ReplaceSpeakerTags(_)
ReplaceSpeakerTags(s) ==
  IF s = <<>> THEN <<>>
  ELSE IF Len(s) = 1
       THEN (IF IsSpeakerAtom(s[1]) THEN <<NL, NL, s[1]>> ELSE s)
       ELSE ReplaceSpeakerTags(SubSeq(s, 1, Len(s) \div 2))
              \o ReplaceSpeakerTags(SubSeq(s, Len(s) \div 2 + 1, Len(s)))

\* text.split("\n"): a sequence of lines, each a sequence of atoms
SplitLines(s) ==
  LET breaks == { i \in 1..Len(s) : s[i] = NL }
      break(k) == CHOOSE i \in breaks : Cardinality({ j \in breaks : j < i }) = k - 1 IN
  [ k \in 1..(Cardinality(breaks) + 1) |->
      SubSeq(s, IF k = 1 THEN 1 ELSE break(k - 1) + 1,
                IF k = Cardinality(breaks) + 1 THEN Len(s) ELSE break(k) - 1) ]

\* parts.join(sep)
RECURSIVE JoinWith(_, _)
JoinWith(parts, sep) ==
  IF parts = <<>> THEN <<>>
  ELSE IF Len(parts) = 1 THEN parts[1]
  ELSE JoinWith(SubSeq(parts, 1, Len(parts) \div 2), sep) \o sep
         \o JoinWith(SubSeq(parts, Len(parts) \div 2 + 1, Len(parts)), sep)

\* array.slice(-n)
LastN(seq, n) ==
  IF Len(seq) <= n THEN seq ELSE SubSeq(seq, Len(seq) - n + 1, Len(seq))

\* text.indexOf(atom), 1-based; 0 when absent (-1 in the source)
IndexOf(s, a) ==
  IF \E i \in 1..Len(s) : s[i] = a
  THEN CHOOSE i \in 1..Len(s) : s[i] = a /\ \A j \in 1..(i - 1) : s[j] # a
  ELSE 0

\* Math.ceil(a / b) for a >= 0, b > 0
CeilDiv(a, b) == (a + b - 1) \div b

\* Math.round(a / b * 100) for a >= 0, b > 0
RoundPercent(a, b) == (200 * a + b) \div (2 * b)

GetLastNLines(text, n) ==
  IF text = <<>> THEN <<>>
  ELSE JoinWith(LastN(SelectSeq(SplitLines(text), LAMBDA l : l # <<>>), n), <<NL>>)

(***************************************************************************)
(* processAudioFile: chunk boundaries                                      *)
(***************************************************************************)
ChunkDuration(chunkMinutes) == chunkMinutes * 60

OverlapDuration(overlapMinutes) == overlapMinutes * 60

\* variant: the stride ignores the overlap
ChunkStrideWithoutOverlap(chunkMinutes, overlapMinutes) ==
  ChunkDuration(chunkMinutes)

ChunkStride(chunkMinutes, overlapMinutes) ==
  ChunkDuration(chunkMinutes) - OverlapDuration(overlapMinutes)

TotalChunks(duration, chunkMinutes, overlapMinutes) ==
  CeilDiv(duration, ChunkStride(chunkMinutes, overlapMinutes))

Min(a, b) == IF a < b THEN a ELSE b

\* the ChunkInfo pushed by iteration i (0-based) of the loop
ChunkAt(i, duration, chunkMinutes, overlapMinutes) ==
  LET startTime == i * ChunkStride(chunkMinutes, overlapMinutes) IN
  [ index |-> i,
    startTime |-> startTime,
    endTime |-> Min(startTime + ChunkDuration(chunkMinutes), duration) ]

\* the chunk list processAudioFile returns
AudioChunks(duration, chunkMinutes, overlapMinutes) ==
  [ k \in 1..TotalChunks(duration, chunkMinutes, overlapMinutes) |->
      ChunkAt(k - 1, duration, chunkMinutes, overlapMinutes) ]

(***************************************************************************)
(* State                                                                   *)
(***************************************************************************)
VARIABLES
  \* generateTranscription
  t_source,              \* the source the audio chunks were cut from
  t_description,         \* descriptionResult.finalDescription
  t_chunks,              \* descriptionResult.generatedFiles.audioChunks
  t_pc,                  \* position of generateTranscription
  t_i,                   \* loop index i
  t_previous,            \* previousTranscription
  t_content,             \* transcriptionContent
  t_chunkTranscriptions, \* chunkTranscriptions
  t_file,                \* content of <name>_transcription.md
  t_progress,            \* content of transcription_progress.json
  t_inFlight,            \* chunk numbers with a generateWithGemini call pending
  t_attempt,             \* attempt counter of the pending generateWithGemini call
  t_response,            \* transcriptionResponse
  t_prompts,             \* history: chunk number -> prompt the call was issued with
  t_outcomes             \* history: chunk number -> how the call settled

tvars == << t_source, t_description, t_chunks, t_pc, t_i, t_previous, t_content,
            t_chunkTranscriptions, t_file, t_progress, t_inFlight, t_attempt,
            t_response, t_prompts, t_outcomes >>

VARIABLES
  \* processAudioFile
  c_probe,           \* what ffprobe yields for the input file
  c_chunkMinutes,    \* options.chunkMinutes
  c_overlapMinutes,  \* options.overlapMinutes
  c_pc,              \* position of processAudioFile
  c_totalChunks,     \* totalChunks
  c_i,               \* loop index i
  c_chunks           \* chunks

cvars == << c_probe, c_chunkMinutes, c_overlapMinutes, c_pc, c_totalChunks, c_i,
            c_chunks >>

VARIABLES
  \* generateScreenshots, then extractVideoScreenshots on the same video
  s_duration,        \* duration of the video (s)
  s_requested,       \* req.body.screenshotCount
  s_pc,              \* position in the two functions
  s_i,               \* loop index of the running function
  s_paths,           \* generateScreenshots: timestamps of the paths pushed
  s_screenshots      \* extractVideoScreenshots: screenshots

svars == << s_duration, s_requested, s_pc, s_i, s_paths, s_screenshots >>

VARIABLES
  \* generateDescription
  d_isVideo,         \* isVideoFile(inputFile)
  d_probe,           \* what ffprobe yields for the input file
  d_img,             \* position of the screenshot branch
  d_aud,             \* position of the audio branch
  d_main,            \* position of generateDescription itself
  d_imageResult,     \* screenshotResult.description
  d_audioResult,     \* audioResult.description
  d_audioChunks,     \* audioResult.files
  d_calls,           \* history: generateWithGemini calls issued, in order
  d_merged,          \* descriptionsToMerge
  d_final            \* finalDescription.text

dvars == << d_isVideo, d_probe, d_img, d_aud, d_main, d_imageResult, d_audioResult,
            d_audioChunks, d_calls, d_merged, d_final >>

VARIABLES
  \* generateReport
  r_pc,              \* position of generateReport
  r_file,            \* content of <reportName>.md
  r_headings,        \* headings.sections, as their titles
  r_i,               \* loop index i
  r_sectionContents, \* sectionContents
  r_calls,           \* history: generateWithGemini calls issued, with their responses
  r_steps            \* the steps saved in report_generation.json

rvars == << r_pc, r_file, r_headings, r_i, r_sectionContents, r_calls, r_steps >>

VARIABLES
  \* chunked upload
  u_activeUploads,   \* activeUploads: job id -> FileUploadStatus
  u_dirs,            \* job id -> the files in <outputDir>/chunks
  u_timers,          \* job id -> the hour its cleanup timer is due, -1 once it ran
  u_now,             \* Date.now(), in hours
  u_reply            \* the response to the last request

uvars == << u_activeUploads, u_dirs, u_timers, u_now, u_reply >>

VARIABLES
  \* one job
  j_pc,              \* position of the request handler and the background task
  j_request,         \* req.file and the fields of req.body
  j_envKey,          \* process.env.GEMINI_API_KEY, "" when unset
  j_streamResponse,  \* req.body.streamResponse
  j_isVideo,         \* mediaInfo.isVideo
  j_large,           \* JSON.stringify(resultSummary).length > 10000
  j_reply,           \* the response to POST /api/process
  j_params,          \* the sanitized parameters of the request handler
  j_dir,             \* the job directory exists
  j_connected,       \* the client has not dropped the connection
  j_events,          \* the statuses of the events written to the stream
  j_result,          \* status of result.json, "none" when absent
  j_error,           \* status of error.json, "none" when absent
  j_files,           \* the stage outputs in the job directory
  j_keysUsed,        \* history: the keys the generation calls were made with
  j_fetch,           \* the last response of GET /api/results/:jobId/:type
  j_observed         \* history: what the client has seen, in order

jvars == << j_pc, j_request, j_envKey, j_streamResponse, j_isVideo, j_large, j_reply,
            j_params, j_dir, j_connected, j_events, j_result, j_error, j_files,
            j_keysUsed, j_fetch, j_observed >>

VARIABLES
  \* one generateWithGemini call
  g_pc,              \* position in the retry loop and in the attempt
  g_maxRetries,      \* options.maxRetries
  g_retryDelayMs,    \* options.retryDelayMs
  g_hasFile,         \* the call has a file to upload
  g_attempt,         \* the loop variable attempt
  g_lastError,       \* lastError, "none" when undefined
  g_log,             \* history: "attempt" per attempt, the delay per retry wait
  g_result           \* what the call returned, "none" before it returns

gvars == << g_pc, g_maxRetries, g_retryDelayMs, g_hasFile, g_attempt, g_lastError,
            g_log, g_result >>

VARIABLES
  \* the job directories and cleanupOldJobs
  k_now,             \* Date.now(), in days
  k_created,         \* history: the day each job directory was made
  k_dirs,            \* the directories under uploads/
  k_due              \* the cleanup timer is due

kvars == << k_now, k_created, k_dirs, k_due >>

VARIABLES
  \* one processGenerationAttempt with several files
  a_pc,              \* "processing", then "returned" or "thrown"
  a_state,           \* per file: where its upload-and-wait callback stands
  a_uploadedFiles,   \* uploadedFiles
  a_deleteRequested  \* the files fileManager.deleteFile was called for

avars == << a_pc, a_state, a_uploadedFiles, a_deleteRequested >>

VARIABLES
  \* the rate limiter
  l_now,             \* Date.now(), in ms
  l_requestCounts,   \* requestCounts: ip -> {count, resetTime}
  l_seen,            \* history: per ip and time, the requests not for /health
  l_admitted,        \* history: per ip and time, those of them passed to next()
  l_windows,         \* history: per ip, the times at which an entry was set
  l_last             \* the last request and the status of its answer

lvars == << l_now, l_requestCounts, l_seen, l_admitted, l_windows, l_last >>

VARIABLES
  \* one call of sendSSE
  e_pc,              \* "call", then "written"
  e_data,            \* the argument data
  e_written          \* the events written to the stream by res.write

evars == << e_pc, e_data, e_written >>

VARIABLES
  \* the parameters of one streaming job
  p_pc,              \* position of the job
  p_body,            \* req.body, the form fields as the client sent them
  p_isVideo,         \* mediaInfo.isVideo
  p_accepted,        \* the sanitized parameters of POST /api/process
  p_used,            \* history: the parameters the stages have run with
  p_runs,            \* history: the merged descriptions generated, in order
  p_delivered,       \* description in description_complete and in the file
  p_prompted         \* the description in the transcription prompts

pvars == << p_pc, p_body, p_isVideo, p_accepted, p_used, p_runs, p_delivered,
            p_prompted >>

vars == << tvars, cvars, svars, dvars, rvars, uvars, jvars, gvars, kvars, avars, lvars, evars, pvars >>

\* the variables of the other components
T_Others == << cvars, svars, dvars, rvars, uvars, jvars, gvars, kvars, avars, lvars, evars, pvars >>

C_Others == << tvars, svars, dvars, rvars, uvars, jvars, gvars, kvars, avars, lvars, evars, pvars >>

S_Others == << tvars, cvars, dvars, rvars, uvars, jvars, gvars, kvars, avars, lvars, evars, pvars >>

D_Others == << tvars, cvars, svars, rvars, uvars, jvars, gvars, kvars, avars, lvars, evars, pvars >>

R_Others == << tvars, cvars, svars, dvars, uvars, jvars, gvars, kvars, avars, lvars, evars, pvars >>

U_Others == << tvars, cvars, svars, dvars, rvars, jvars, gvars, kvars, avars, lvars, evars, pvars >>

J_Others == << tvars, cvars, svars, dvars, rvars, uvars, gvars, kvars, avars, lvars, evars, pvars >>

G_Others == << tvars, cvars, svars, dvars, rvars, uvars, jvars, kvars, avars, lvars, evars, pvars >>

K_Others == << tvars, cvars, svars, dvars, rvars, uvars, jvars, gvars, avars, lvars, evars, pvars >>

A_Others == << tvars, cvars, svars, dvars, rvars, uvars, jvars, gvars, kvars, lvars, evars, pvars >>

L_Others == << tvars, cvars, svars, dvars, rvars, uvars, jvars, gvars, kvars, avars, evars, pvars >>

E_Others == << tvars, cvars, svars, dvars, rvars, uvars, jvars, gvars, kvars, avars, lvars, pvars >>

P_Others == << tvars, cvars, svars, dvars, rvars, uvars, jvars, gvars, kvars, avars, lvars, evars >>

(***************************************************************************)
(* generateTranscription                                                   *)
(***************************************************************************)
FullHdr == "# Full Transcription"

\* a response longer than the context window of the next prompt
LongResponse ==
  JoinWith([k \in 1..(ContextLines + 2) |-> <<"line " \o ToString(k)>>], <<NL>>)

\* texts a successful generation call may return
ResponseTexts ==
  { <<>>,
    <<"~[Alice]~: hello">>,
    <<NL, "~[Alice]~: hello", NL, "and so on", NL, NL, "~[Bob]~: (hesitant) ok", NL>>,
    LongResponse }

\* merged descriptions; the second one quotes the transcript heading
Descriptions ==
  { <<"A call between Alice and Bob.">>,
    <<"A call.", NL, FullHdr, NL, "Bob reads a file aloud.">> }

\* sources handed to the transcription stage: duration (s) and chunk minutes;
\* the 2-minute sources give 1..MaxTranscriptChunks chunks
TranscriptionSources ==
  { [duration |-> 1500, chunkMinutes |-> 10],
    [duration |-> 0, chunkMinutes |-> 10] }
  \cup { [duration |-> 60 * k - 15, chunkMinutes |-> 2] : k \in 1..MaxTranscriptChunks }

TranscriptionPrompt(description, count, total, previousTranscription) ==
  [ description |-> description,
    count |-> count,
    total |-> total,
    previousTranscription |-> previousTranscription ]

ErrorText(k) ==
  <<NL, "[Transcription error for chunk " \o ToString(k) \o "]", NL>>

ProgressIndicator(currentChunk, totalChunks, isComplete) ==
  IF isComplete THEN <<>>
  ELSE <<NL, NL,
         "*Progress: " \o ToString(currentChunk) \o "/" \o ToString(totalChunks)
         \o " chunks processed ("
         \o ToString(RoundPercent(currentChunk, totalChunks)) \o "%)*">>

InitialContent(description) ==
  JoinWith(<< <<"# File Metadata">>,
              <<"# Meeting Description">>,
              description,
              <<NL, "# Audio Analysis">>,
              <<"audio description">>,
              <<NL, "# Visual Analysis">>,
              <<"image description">>,
              <<NL, FullHdr>>,
              <<"*(Transcription in progress...)*">> >>,
           <<NL, NL>>)

\* variant: the new content is appended to the file instead of replacing
\* what follows the heading
UpdateTranscriptionFileAppends(file, content, currentChunk, totalChunks, isComplete) ==
  file \o ProgressIndicator(currentChunk, totalChunks, isComplete)
       \o <<NL, NL>> \o content

UpdateTranscriptionFile(file, content, currentChunk, totalChunks, isComplete) ==
  LET transcriptionHeaderPos == IndexOf(file, FullHdr) IN
  IF transcriptionHeaderPos = 0 THEN file
  ELSE SubSeq(file, 1, transcriptionHeaderPos)
       \o ProgressIndicator(currentChunk, totalChunks, isComplete)
       \o <<NL, NL>> \o content

\* existingData after the replace-or-push and the sort by chunkIndex
SaveTranscriptionOutput(existingData, data) ==
  LET others == SelectSeq(existingData, LAMBDA e : e.chunkIndex # data.chunkIndex)
      before == SelectSeq(others, LAMBDA e : e.chunkIndex < data.chunkIndex)
      after == SelectSeq(others, LAMBDA e : e.chunkIndex > data.chunkIndex)
  IN before \o <<data>> \o after

CleanTranscription(text) == ReplaceSpeakerTags(Trim(text))

T_Init ==
  /\ t_source \in TranscriptionSources
  /\ t_description \in Descriptions
  /\ t_chunks = AudioChunks(t_source.duration, t_source.chunkMinutes,
                            DefaultOverlapMinutes)
  /\ t_pc = "loop"
  /\ t_i = 0
  /\ t_previous = <<>>
  /\ t_content = <<>>
  /\ t_chunkTranscriptions = <<>>
  /\ t_file = InitialContent(t_description)
  /\ t_progress = <<>>
  /\ t_inFlight = {}
  /\ t_attempt = 0
  /\ t_response = [text |-> <<>>, error |-> FALSE]
  /\ t_prompts = <<>>
  /\ t_outcomes = <<>>

\* variant: the call of the next chunk is issued without awaiting the
\* pending one
T_IssueCallWithoutAwait ==
  LET k == Cardinality(DOMAIN t_prompts) + 1 IN
  /\ t_pc \in {"loop", "await"}
  /\ k <= Len(t_chunks)
  /\ t_prompts' = (k :> TranscriptionPrompt(t_description, k, Len(t_chunks),
                                            t_previous)) @@ t_prompts
  /\ t_inFlight' = t_inFlight \cup {k}
  /\ t_attempt' = 0
  /\ t_pc' = "await"
  /\ UNCHANGED << T_Others, t_source, t_description, t_chunks, t_i, t_previous,
                  t_content, t_chunkTranscriptions, t_file, t_progress, t_response,
                  t_outcomes >>

\* lines 199-222: build the prompt of chunk i and await generateWithGemini
T_IssueCall ==
  /\ t_pc = "loop"
  /\ t_i < Len(t_chunks)
  /\ t_prompts' = ((t_i + 1) :> TranscriptionPrompt(t_description, t_i + 1,
                                     Len(t_chunks), t_previous)) @@ t_prompts
  /\ t_inFlight' = t_inFlight \cup {t_i + 1}
  /\ t_attempt' = 0
  /\ t_pc' = "await"
  /\ UNCHANGED << T_Others, t_source, t_description, t_chunks, t_i, t_previous, t_content,
                  t_chunkTranscriptions, t_file, t_progress, t_response,
                  t_outcomes >>

\* generateWithGemini: an attempt returns the model's text
T_AttemptSucceeds ==
  \E k \in t_inFlight, txt \in ResponseTexts :
    /\ t_response' = [text |-> txt, error |-> FALSE]
    /\ t_outcomes' = (k :> [kind |-> "ok", text |-> txt]) @@ t_outcomes
    /\ t_inFlight' = t_inFlight \ {k}
    /\ t_pc' = "result"
    /\ UNCHANGED << T_Others, t_source, t_description, t_chunks, t_i, t_previous, t_content,
                    t_chunkTranscriptions, t_file, t_progress, t_attempt,
                    t_prompts >>

\* generateWithGemini: an attempt throws; retry, or return the error value
\* once maxRetries attempts have failed
T_AttemptFails ==
  \E k \in t_inFlight :
    IF t_attempt < TranscriptionMaxRetries - 1
    THEN /\ t_attempt' = t_attempt + 1
         /\ UNCHANGED << T_Others, t_source, t_description, t_chunks, t_pc, t_i, t_previous,
                         t_content, t_chunkTranscriptions, t_file, t_progress,
                         t_inFlight, t_response, t_prompts, t_outcomes >>
    ELSE /\ t_response' = [text |-> <<>>, error |-> TRUE]
         /\ t_outcomes' = (k :> [kind |-> "error", text |-> <<>>]) @@ t_outcomes
         /\ t_inFlight' = t_inFlight \ {k}
         /\ t_pc' = "result"
         /\ UNCHANGED << T_Others, t_source, t_description, t_chunks, t_i, t_previous,
                         t_content, t_chunkTranscriptions, t_file, t_progress,
                         t_attempt, t_prompts >>

\* the awaited call rejects: control passes to the catch block
T_CallThrows ==
  \E k \in t_inFlight :
    /\ t_outcomes' = (k :> [kind |-> "throw", text |-> <<>>]) @@ t_outcomes
    /\ t_inFlight' = t_inFlight \ {k}
    /\ t_pc' = "caught"
    /\ UNCHANGED << T_Others, t_source, t_description, t_chunks, t_i, t_previous, t_content,
                    t_chunkTranscriptions, t_file, t_progress, t_attempt,
                    t_response, t_prompts >>

\* variant: an error response is logged but gets no transcript entry
T_HandleResponseSkipsErrorEntry ==
  /\ t_pc = "result"
  /\ t_progress' = SaveTranscriptionOutput(t_progress,
       [chunkIndex |-> t_i, prompt |-> t_prompts[t_i + 1],
        response |-> t_response.text, error |-> t_response.error])
  /\ IF t_response.error
     THEN /\ t_chunkTranscriptions' = t_chunkTranscriptions
          /\ t_content' = t_content
          /\ t_previous' = t_previous
     ELSE LET transcriptionText == CleanTranscription(t_response.text) IN
          /\ t_chunkTranscriptions' = Append(t_chunkTranscriptions, transcriptionText)
          /\ t_content' = t_content \o (IF t_i > 0 THEN <<NL, NL>> ELSE <<>>)
                                    \o transcriptionText
          /\ t_previous' = GetLastNLines(transcriptionText, ContextLines)
  /\ t_file' = UpdateTranscriptionFile(t_file, t_content', t_i + 1, Len(t_chunks), FALSE)
  /\ t_i' = t_i + 1
  /\ t_pc' = "loop"
  /\ UNCHANGED << T_Others, t_source, t_description, t_chunks, t_inFlight, t_attempt,
                  t_response, t_prompts, t_outcomes >>

\* lines 224-266: the rest of the try block, then i++
T_HandleResponse ==
  /\ t_pc = "result"
  /\ t_progress' = SaveTranscriptionOutput(t_progress,
       [chunkIndex |-> t_i, prompt |-> t_prompts[t_i + 1],
        response |-> t_response.text, error |-> t_response.error])
  /\ IF t_response.error
     THEN /\ t_chunkTranscriptions' = Append(t_chunkTranscriptions, ErrorText(t_i + 1))
          /\ t_content' = t_content \o ErrorText(t_i + 1)
          /\ t_previous' = t_previous
     ELSE LET transcriptionText == CleanTranscription(t_response.text) IN
          /\ t_chunkTranscriptions' = Append(t_chunkTranscriptions, transcriptionText)
          /\ t_content' = t_content \o (IF t_i > 0 THEN <<NL, NL>> ELSE <<>>)
                                    \o transcriptionText
          /\ t_previous' = GetLastNLines(transcriptionText, ContextLines)
  /\ t_file' = UpdateTranscriptionFile(t_file, t_content', t_i + 1, Len(t_chunks), FALSE)
  /\ t_i' = t_i + 1
  /\ t_pc' = "loop"
  /\ UNCHANGED << T_Others, t_source, t_description, t_chunks, t_inFlight, t_attempt,
                  t_response, t_prompts, t_outcomes >>

\* variant: the catch block also clears the carried context
T_CatchClearsContext ==
  /\ t_pc = "caught"
  /\ t_progress' = SaveTranscriptionOutput(t_progress,
       [chunkIndex |-> t_i, prompt |-> t_prompts[t_i + 1],
        response |-> <<>>, error |-> TRUE])
  /\ t_chunkTranscriptions' = Append(t_chunkTranscriptions, ErrorText(t_i + 1))
  /\ t_content' = t_content \o ErrorText(t_i + 1)
  /\ t_file' = UpdateTranscriptionFile(t_file, t_content', t_i + 1, Len(t_chunks), FALSE)
  /\ t_previous' = <<>>
  /\ t_i' = t_i + 1
  /\ t_pc' = "loop"
  /\ UNCHANGED << T_Others, t_source, t_description, t_chunks, t_inFlight,
                  t_attempt, t_response, t_prompts, t_outcomes >>

\* variant: the catch block logs the error and rethrows it
T_CatchRethrows ==
  /\ t_pc = "caught"
  /\ t_progress' = SaveTranscriptionOutput(t_progress,
       [chunkIndex |-> t_i, prompt |-> t_prompts[t_i + 1],
        response |-> <<>>, error |-> TRUE])
  /\ t_pc' = "aborted"
  /\ UNCHANGED << T_Others, t_source, t_description, t_chunks, t_i, t_previous,
                  t_content, t_chunkTranscriptions, t_file, t_inFlight, t_attempt,
                  t_response, t_prompts, t_outcomes >>

\* lines 267-287: the catch block, then i++
T_CatchChunkError ==
  /\ t_pc = "caught"
  /\ t_progress' = SaveTranscriptionOutput(t_progress,
       [chunkIndex |-> t_i, prompt |-> t_prompts[t_i + 1],
        response |-> <<>>, error |-> TRUE])
  /\ t_chunkTranscriptions' = Append(t_chunkTranscriptions, ErrorText(t_i + 1))
  /\ t_content' = t_content \o ErrorText(t_i + 1)
  /\ t_file' = UpdateTranscriptionFile(t_file, t_content', t_i + 1, Len(t_chunks), FALSE)
  /\ t_i' = t_i + 1
  /\ t_pc' = "loop"
  /\ UNCHANGED << T_Others, t_source, t_description, t_chunks, t_previous, t_inFlight,
                  t_attempt, t_response, t_prompts, t_outcomes >>

\* lines 290-314: the final update and the return
T_Finish ==
  /\ t_pc = "loop"
  /\ t_i >= Len(t_chunks)
  /\ t_file' = UpdateTranscriptionFile(t_file, t_content, Len(t_chunks),
                                       Len(t_chunks), TRUE)
  /\ t_pc' = "done"
  /\ UNCHANGED << T_Others, t_source, t_description, t_chunks, t_i, t_previous, t_content,
                  t_chunkTranscriptions, t_progress, t_inFlight, t_attempt,
                  t_response, t_prompts, t_outcomes >>

T_Next ==
  \/ T_IssueCall
  \/ T_AttemptSucceeds
  \/ T_AttemptFails
  \/ T_CallThrows
  \/ T_HandleResponse
  \/ T_CatchChunkError
  \/ T_Finish

\* generateTranscription is not running
T_Idle ==
  /\ t_source = [duration |-> 0, chunkMinutes |-> 10]
  /\ t_description = <<>>
  /\ t_chunks = <<>>
  /\ t_pc = "idle"
  /\ t_i = 0
  /\ t_previous = <<>>
  /\ t_content = <<>>
  /\ t_chunkTranscriptions = <<>>
  /\ t_file = <<>>
  /\ t_progress = <<>>
  /\ t_inFlight = {}
  /\ t_attempt = 0
  /\ t_response = [text |-> <<>>, error |-> FALSE]
  /\ t_prompts = <<>>
  /\ t_outcomes = <<>>

(***************************************************************************)
(* Numbers with Infinity and NaN                                           *)
(***************************************************************************)
RECURSIVE Gcd(_, _)
Gcd(a, b) == IF b = 0 THEN a ELSE Gcd(b, a % b)

\* the fraction n / d (n >= 0, d > 0) in lowest terms
Num(n, d) ==
  LET g == Gcd(n, d) IN [kind |-> "num", num |-> n \div g, den |-> d \div g]

Infinity == [kind |-> "inf", num |-> 0, den |-> 1]

NaN == [kind |-> "nan", num |-> 0, den |-> 1]

(***************************************************************************)
(* processAudioFile                                                        *)
(***************************************************************************)
\* what getFileDuration can yield: a rejection, or a duration in seconds
ProbeResults ==
  {[ok |-> FALSE, duration |-> 0]}
  \cup {[ok |-> TRUE, duration |-> 30 * k] : k \in 0..MaxDurationSteps}

\* Math.ceil(a / b) for integers a >= 0 and b >= 0
CeilOfQuotient(a, b) ==
  IF b = 0 THEN (IF a = 0 THEN NaN ELSE Infinity)
  ELSE Num(CeilDiv(a, b), 1)

\* i < x for an integer i
LessThan(i, x) ==
  CASE x.kind = "num" -> i * x.den < x.num
    [] x.kind = "inf" -> TRUE
    [] x.kind = "nan" -> FALSE

C_Init ==
  /\ c_probe \in ProbeResults
  /\ c_overlapMinutes \in 1..MaxOverlapMinutes
  /\ c_chunkMinutes \in c_overlapMinutes..MaxChunkMinutes
  /\ c_pc = "probe"
  /\ c_totalChunks = Num(0, 1)
  /\ c_i = 0
  /\ c_chunks = <<>>

\* lines 1338-1357: getFileDuration resolves
C_ProbeResolves ==
  /\ c_pc = "probe"
  /\ c_probe.ok
  /\ c_totalChunks' = CeilOfQuotient(c_probe.duration,
                                     ChunkStride(c_chunkMinutes, c_overlapMinutes))
  /\ c_pc' = "loop"
  /\ UNCHANGED << C_Others, c_probe, c_chunkMinutes, c_overlapMinutes, c_i, c_chunks >>

\* getFileDuration rejects: processAudioFile rejects
C_ProbeRejects ==
  /\ c_pc = "probe"
  /\ ~c_probe.ok
  /\ c_pc' = "rejected"
  /\ UNCHANGED << C_Others, c_probe, c_chunkMinutes, c_overlapMinutes, c_totalChunks,
                  c_i, c_chunks >>

\* lines 1360-1378: one iteration of the loop
C_PushChunk ==
  /\ c_pc = "loop"
  /\ LessThan(c_i, c_totalChunks)
  /\ c_i < MaxChunkLoop
  /\ c_chunks' = Append(c_chunks, ChunkAt(c_i, c_probe.duration, c_chunkMinutes,
                                          c_overlapMinutes))
  /\ c_i' = c_i + 1
  /\ UNCHANGED << C_Others, c_probe, c_chunkMinutes, c_overlapMinutes, c_pc,
                  c_totalChunks >>

\* lines 1380-1387: every createMp3Chunk resolved; the chunk list is returned
C_Return ==
  /\ c_pc = "loop"
  /\ ~LessThan(c_i, c_totalChunks)
  /\ c_pc' = "returned"
  /\ UNCHANGED << C_Others, c_probe, c_chunkMinutes, c_overlapMinutes, c_totalChunks,
                  c_i, c_chunks >>

\* line 1381: a createMp3Chunk rejected
C_ConversionRejects ==
  /\ c_pc = "loop"
  /\ ~LessThan(c_i, c_totalChunks)
  /\ c_pc' = "rejected"
  /\ UNCHANGED << C_Others, c_probe, c_chunkMinutes, c_overlapMinutes, c_totalChunks,
                  c_i, c_chunks >>

C_Next ==
  \/ C_ProbeResolves
  \/ C_ProbeRejects
  \/ C_PushChunk
  \/ C_Return
  \/ C_ConversionRejects

\* processAudioFile is not running
C_Idle ==
  /\ c_probe = [ok |-> FALSE, duration |-> 0]
  /\ c_chunkMinutes = 10
  /\ c_overlapMinutes = DefaultOverlapMinutes
  /\ c_pc = "idle"
  /\ c_totalChunks = Num(0, 1)
  /\ c_i = 0
  /\ c_chunks = <<>>

(***************************************************************************)
(* Floating-point values as exact fractions, with Infinity and NaN         *)
(***************************************************************************)
\* a / b for a fraction a >= 0 and an integer b >= 0
FDiv(a, b) ==
  IF a.kind # "num" THEN a
  ELSE IF b = 0 THEN (IF a.num = 0 THEN NaN ELSE Infinity)
  ELSE Num(a.num, a.den * b)

\* a * i for an integer i >= 0
FMul(a, i) ==
  IF a.kind = "nan" THEN NaN
  ELSE IF a.kind = "inf" THEN (IF i = 0 THEN NaN ELSE Infinity)
  ELSE Num(a.num * i, a.den)

FAdd(a, b) ==
  IF a.kind = "nan" \/ b.kind = "nan" THEN NaN
  ELSE IF a.kind = "inf" \/ b.kind = "inf" THEN Infinity
  ELSE Num(a.num * b.den + b.num * a.den, a.den * b.den)

FSub(a, b) ==
  IF a.kind = "nan" \/ b.kind = "nan" THEN NaN
  ELSE IF a.kind = "inf" \/ b.kind = "inf" THEN Infinity
  ELSE Num(a.num * b.den - b.num * a.den, a.den * b.den)

\* a < b; false when either side is NaN
FLess(a, b) ==
  /\ a.kind = "num"
  /\ b.kind = "num"
  /\ a.num * b.den < b.num * a.den

\* a = b as numbers; false when either side is NaN
FEq(a, b) ==
  /\ a.kind = "num"
  /\ b.kind = "num"
  /\ a.num * b.den = b.num * a.den

(***************************************************************************)
(* generateScreenshots (api) and extractVideoScreenshots (utils)           *)
(***************************************************************************)
\* generateScreenshots: timestamp of screenshot i, 1 <= i <= count
ApiTimestamp(duration, count, i) ==
  LET interval == FDiv(Num(duration, 1), count + 1) IN
  FMul(interval, i)

\* extractVideoScreenshots: timestamp of screenshot i, 0 <= i < screenshotCount
ScreenshotTimestamp(duration, screenshotCount, i) ==
  LET startTime == Num(duration, 100)
      endTime == Num(duration * 99, 100)
      interval == FDiv(FSub(endTime, startTime), screenshotCount - 1)
  IN FAdd(startTime, FMul(interval, i))

S_Init ==
  /\ s_duration \in {30 * k : k \in 0..MaxDurationSteps}
  /\ s_requested \in 1..MaxScreenshots
  /\ s_pc = "generateScreenshots"
  /\ s_i = 1
  /\ s_paths = <<>>
  /\ s_screenshots = <<>>

\* api.ts 1191-1195: not a video or no duration, no screenshots
S_SkipScreenshots ==
  /\ s_pc = "generateScreenshots"
  /\ s_duration <= 0
  /\ s_pc' = "extractVideoScreenshots"
  /\ s_i' = 0
  /\ UNCHANGED << S_Others, s_duration, s_requested, s_paths, s_screenshots >>

\* api.ts 1201-1216: ffmpeg wrote screenshot i
S_TakeScreenshot ==
  /\ s_pc = "generateScreenshots"
  /\ s_duration > 0
  /\ s_i <= s_requested
  /\ s_paths' = Append(s_paths, ApiTimestamp(s_duration, s_requested, s_i))
  /\ s_i' = s_i + 1
  /\ UNCHANGED << S_Others, s_duration, s_requested, s_pc, s_screenshots >>

\* api.ts 1207-1209, 1219-1222: ffmpeg failed, the paths so far are returned
S_ScreenshotFails ==
  /\ s_pc = "generateScreenshots"
  /\ s_duration > 0
  /\ s_i <= s_requested
  /\ s_pc' = "extractVideoScreenshots"
  /\ s_i' = 0
  /\ UNCHANGED << S_Others, s_duration, s_requested, s_paths, s_screenshots >>

\* api.ts 1218: all screenshots written
S_ReturnPaths ==
  /\ s_pc = "generateScreenshots"
  /\ s_duration > 0
  /\ s_i > s_requested
  /\ s_pc' = "extractVideoScreenshots"
  /\ s_i' = 0
  /\ UNCHANGED << S_Others, s_duration, s_requested, s_paths, s_screenshots >>

\* part_003 380-399: one iteration, with screenshotCount = screenshotPaths.length
S_PushScreenshot ==
  /\ s_pc = "extractVideoScreenshots"
  /\ s_i < Len(s_paths)
  /\ s_screenshots' = Append(s_screenshots,
       [index |-> s_i,
        timestamp |-> ScreenshotTimestamp(s_duration, Len(s_paths), s_i)])
  /\ s_i' = s_i + 1
  /\ UNCHANGED << S_Others, s_duration, s_requested, s_pc, s_paths >>

\* part_003 401-404: the screenshot list is returned
S_ReturnScreenshots ==
  /\ s_pc = "extractVideoScreenshots"
  /\ s_i >= Len(s_paths)
  /\ s_pc' = "returned"
  /\ UNCHANGED << S_Others, s_duration, s_requested, s_i, s_paths, s_screenshots >>

\* part_003 402: an extractScreenshot rejected
S_ExtractionRejects ==
  /\ s_pc = "extractVideoScreenshots"
  /\ s_i >= Len(s_paths)
  /\ s_pc' = "rejected"
  /\ UNCHANGED << S_Others, s_duration, s_requested, s_i, s_paths, s_screenshots >>

S_Next ==
  \/ S_SkipScreenshots
  \/ S_TakeScreenshot
  \/ S_ScreenshotFails
  \/ S_ReturnPaths
  \/ S_PushScreenshot
  \/ S_ReturnScreenshots
  \/ S_ExtractionRejects

\* no screenshots are being taken
S_Idle ==
  /\ s_duration = 0
  /\ s_requested = 4
  /\ s_pc = "idle"
  /\ s_i = 0
  /\ s_paths = <<>>
  /\ s_screenshots = <<>>

(***************************************************************************)
(* generateDescription                                                     *)
(***************************************************************************)
\* what ffprobe can yield for the sources of the description stage
DescribeProbes ==
  { [ok |-> FALSE, duration |-> 0],
    [ok |-> TRUE, duration |-> 0],
    [ok |-> TRUE, duration |-> 400],
    [ok |-> TRUE, duration |-> 1500] }

\* what a generateWithGemini call with the default of one attempt returns:
\* the model's text, or the error value whose text is empty
ImageCallTexts == { <<"Two people on a video call.">>, <<>> }

AudioCallTexts == { <<"Alice and Bob discuss a release.">>, <<>> }

MergeCallTexts == Descriptions \cup { <<>> }

\* transcriptionChunkMinutes when the caller passes none
DefaultChunkMinutes == 10

D_Init ==
  /\ d_isVideo \in BOOLEAN
  /\ d_probe \in DescribeProbes
  /\ d_img = IF d_isVideo THEN "extract" ELSE "done"
  /\ d_aud = "chunk"
  /\ d_main = "awaitAll"
  /\ d_imageResult = <<>>
  /\ d_audioResult = <<>>
  /\ d_audioChunks = <<>>
  /\ d_calls = <<>>
  /\ d_merged = <<>>
  /\ d_final = <<>>

\* the effect on generateDescription of a branch promise rejecting:
\* Promise.all rejects, the catch block records the error and rethrows
BranchRejected(main) == IF main = "awaitAll" THEN "thrown" ELSE main

\* lines 480-492: extractVideoScreenshots resolved, the image call is issued
D_ScreenshotsResolve ==
  /\ d_img = "extract"
  /\ d_probe.ok
  /\ d_calls' = Append(d_calls, "image")
  /\ d_img' = "call"
  /\ UNCHANGED << D_Others, d_isVideo, d_probe, d_aud, d_main, d_imageResult,
                  d_audioResult, d_audioChunks, d_merged, d_final >>

\* extractVideoScreenshots rejected (ffprobe or ffmpeg failed)
D_ScreenshotsReject ==
  /\ d_img = "extract"
  /\ d_img' = "failed"
  /\ d_main' = BranchRejected(d_main)
  /\ UNCHANGED << D_Others, d_isVideo, d_probe, d_aud, d_imageResult, d_audioResult,
                  d_audioChunks, d_calls, d_merged, d_final >>

\* lines 488-504: the image call returned; the branch resolves
D_ImageCallReturns ==
  /\ d_img = "call"
  /\ \E txt \in ImageCallTexts : d_imageResult' = txt
  /\ d_img' = "done"
  /\ UNCHANGED << D_Others, d_isVideo, d_probe, d_aud, d_main, d_audioResult,
                  d_audioChunks, d_calls, d_merged, d_final >>

\* lines 508-519: processAudioFile resolved, the audio call is issued
D_ChunksResolve ==
  /\ d_aud = "chunk"
  /\ d_probe.ok
  /\ d_audioChunks' = AudioChunks(d_probe.duration, DefaultChunkMinutes,
                                  DefaultOverlapMinutes)
  /\ d_calls' = Append(d_calls, "audio")
  /\ d_aud' = "call"
  /\ UNCHANGED << D_Others, d_isVideo, d_probe, d_img, d_main, d_imageResult,
                  d_audioResult, d_merged, d_final >>

\* processAudioFile rejected (ffprobe or ffmpeg failed)
D_ChunksReject ==
  /\ d_aud = "chunk"
  /\ d_aud' = "failed"
  /\ d_main' = BranchRejected(d_main)
  /\ UNCHANGED << D_Others, d_isVideo, d_probe, d_img, d_imageResult, d_audioResult,
                  d_audioChunks, d_calls, d_merged, d_final >>

\* lines 515-530: the audio call returned; the branch resolves
D_AudioCallReturns ==
  /\ d_aud = "call"
  /\ \E txt \in AudioCallTexts : d_audioResult' = txt
  /\ d_aud' = "done"
  /\ UNCHANGED << D_Others, d_isVideo, d_probe, d_img, d_main, d_imageResult,
                  d_audioChunks, d_calls, d_merged, d_final >>

\* lines 477, 534-545: Promise.all resolved, the merge call is issued
D_IssueMerge ==
  /\ d_main = "awaitAll"
  /\ d_img = "done"
  /\ d_aud = "done"
  /\ d_merged' = IF d_isVideo THEN <<d_imageResult, d_audioResult>>
                 ELSE <<d_audioResult>>
  /\ d_calls' = Append(d_calls, "merge")
  /\ d_main' = "merge"
  /\ UNCHANGED << D_Others, d_isVideo, d_probe, d_img, d_aud, d_imageResult,
                  d_audioResult, d_audioChunks, d_final >>

\* lines 541-568: the merge call returned; generateDescription returns
D_MergeReturns ==
  /\ d_main = "merge"
  /\ \E txt \in MergeCallTexts : d_final' = txt
  /\ d_main' = "returned"
  /\ UNCHANGED << D_Others, d_isVideo, d_probe, d_img, d_aud, d_imageResult,
                  d_audioResult, d_audioChunks, d_calls, d_merged >>

D_Next ==
  \/ D_ScreenshotsResolve
  \/ D_ScreenshotsReject
  \/ D_ImageCallReturns
  \/ D_ChunksResolve
  \/ D_ChunksReject
  \/ D_AudioCallReturns
  \/ D_IssueMerge
  \/ D_MergeReturns

\* generateDescription is not running
D_Idle ==
  /\ d_isVideo = FALSE
  /\ d_probe = [ok |-> FALSE, duration |-> 0]
  /\ d_img = "idle"
  /\ d_aud = "idle"
  /\ d_main = "idle"
  /\ d_imageResult = <<>>
  /\ d_audioResult = <<>>
  /\ d_audioChunks = <<>>
  /\ d_calls = <<>>
  /\ d_merged = <<>>
  /\ d_final = <<>>

(***************************************************************************)
(* generateReport: text operators                                          *)
(*                                                                         *)
(* In the report "#" and " " are atoms of one character each, so that      *)
(* "## " is three atoms and indexOf("## ", ...) also matches inside "### ". *)
(* In JSON text every bracket, colon and comma is an atom and a string or  *)
(* a section object is one atom.                                           *)
(***************************************************************************)
\* text.indexOf(pattern, from), 1-based; 0 when absent (-1 in the source)
IndexOfText(s, pat, from) ==
  LET hits == { i \in from..(Len(s) - Len(pat) + 1) :
                  SubSeq(s, i, i + Len(pat) - 1) = pat } IN
  IF hits = {} THEN 0 ELSE CHOOSE i \in hits : \A j \in hits : i <= j

\* text.length, in characters
RECURSIVE CharLength(_)
CharLength(s) == IF s = <<>> THEN 0 ELSE Len(Head(s)) + CharLength(Tail(s))

ReportTitle == <<"#", " ", "Meeting Report">>

SectionPrefix == <<"#", "#", " ">>

ErrorPlaceholder == <<"*Error generating content*">>

GeneratingPlaceholder == "*(Content being generated...)*"

StructureNote(n) ==
  "*Report structure created. Generating content for " \o ToString(n)
    \o " sections...*"

ReportProgress(currentSection, totalSections) ==
  "*Progress: " \o ToString(currentSection) \o "/" \o ToString(totalSections)
    \o " sections completed ("
    \o ToString(RoundPercent(currentSection, totalSections)) \o "%)*"

\* the section titles an outline can hold; the second has the first as a prefix
SectionTitles == { <<"Summary">>, <<"Summary", " of Actions">>, <<"Contacts">> }

\* the JSON text of one entry of "sections" (a title has one or two atoms)
SectionJson(title) ==
  "{\"title\":\"" \o title[1] \o (IF Len(title) > 1 THEN title[2] ELSE "") \o "\"}"

\* the atoms that are one complete JSON value (strings and section objects)
JsonValueAtoms ==
  { "\"sections\"", "\"title\"", "\"Decisions\"",
    "\"The team agreed to ship on Friday.\"" }
    \cup { SectionJson(t) : t \in SectionTitles }

\* the text without insignificant JSON whitespace
JsonTokens(text) == SelectSeq(text, LAMBDA a : a \notin {NL, " "})

\* JSON.parse as a recogniser: the position after the JSON value that starts
\* at position i of t, 0 when there is none
RECURSIVE JsonValueEnd(_, _)
RECURSIVE JsonItemsEnd(_, _, _)
JsonValueEnd(t, i) ==
  IF i > Len(t) THEN 0
  ELSE IF t[i] \in JsonValueAtoms THEN i + 1
  ELSE IF t[i] \in {"[", "{"} THEN
    LET close == IF t[i] = "[" THEN "]" ELSE "}" IN
    IF i + 1 <= Len(t) /\ t[i + 1] = close THEN i + 2
    ELSE JsonItemsEnd(t, i + 1, close)
  ELSE 0

\* the elements of an array (close = "]") or the members of an object
JsonItemsEnd(t, i, close) ==
  LET v == IF close = "]" THEN i
           ELSE IF i + 1 <= Len(t) /\ t[i] \in JsonValueAtoms /\ t[i + 1] = ":"
                THEN i + 2 ELSE Len(t) + 1
      e == JsonValueEnd(t, v) IN
  IF e = 0 \/ e > Len(t) THEN 0
  ELSE IF t[e] = close THEN e + 1
  ELSE IF t[e] = "," THEN JsonItemsEnd(t, e + 1, close)
  ELSE 0

\* JSON.parse(text) does not throw
JsonParses(text) ==
  JsonValueEnd(JsonTokens(text), 1) = Len(JsonTokens(text)) + 1

\* JSON.parse(text).sections is an array of section objects
HasSections(text) ==
  LET t == JsonTokens(text) IN
  /\ Len(t) >= 6
  /\ SubSeq(t, 1, 4) = <<"{", "\"sections\"", ":", "[">>
  /\ SubSeq(t, Len(t) - 1, Len(t)) = <<"]", "}">>
  /\ \A k \in 1..((Len(t) - 5) \div 2) :
       \E title \in SectionTitles : t[3 + 2 * k] = SectionJson(title)

\* JSON.parse(text).sections as the sequence of its titles
ParseHeadings(text) ==
  LET t == JsonTokens(text) IN
  [ k \in 1..((Len(t) - 5) \div 2) |->
      CHOOSE title \in SectionTitles : t[3 + 2 * k] = SectionJson(title) ]

\* JSON.stringify of an outline
HeadingsJson(titles) ==
  <<"{", "\"sections\"", ":", "[">>
    \o JoinWith([k \in 1..Len(titles) |-> <<SectionJson(titles[k])>>], <<",">>)
    \o <<"]", "}">>

isValidSectionContent(content) ==
  LET contentLines == SplitLines(Trim(content)) IN
  IF /\ Trim(content) # <<>>
     /\ Trim(content)[1] \in {"{", "["}
     /\ JsonParses(content)
  THEN FALSE
  ELSE IF CharLength(Trim(content)) < 10 THEN FALSE
  ELSE IF \A k \in 1..Len(contentLines) :
            \/ contentLines[k] # <<>> /\ contentLines[k][1] = "#"
            \/ Trim(contentLines[k]) = <<>>
  THEN FALSE
  ELSE TRUE

\* the file after updateReportStructure(filePath, headings)
updateReportStructure(file, titles) ==
  LET titlePos == IndexOfText(file, ReportTitle, 1)
      sectionPlaceholders ==
        JoinWith([ k \in 1..Len(titles) |->
                     SectionPrefix \o titles[k] \o <<NL, NL, GeneratingPlaceholder>> ],
                 <<NL, NL>>) IN
  IF titlePos = 0 THEN file
  ELSE SubSeq(file, 1, titlePos + Len(ReportTitle) - 1)
         \o <<NL, NL, StructureNote(Len(titles)), NL, NL>>
         \o sectionPlaceholders

\* the file after updateReportSection(filePath, sectionTitle, sectionContent,
\* currentSection, totalSections)
updateReportSection(file, sectionTitle, sectionContent, currentSection, totalSections) ==
  LET header == SectionPrefix \o sectionTitle
      sectionHeaderPos == IndexOfText(file, header, 1)
      found == IndexOfText(file, SectionPrefix, sectionHeaderPos + 3)
      nextSectionPos == IF found = 0 THEN Len(file) + 1 ELSE found
      newContent ==
        SubSeq(file, 1, sectionHeaderPos + Len(header) - 1)
          \o <<NL, NL>> \o sectionContent \o <<NL, NL>>
          \o SubSeq(file, nextSectionPos, Len(file))
      afterTitlePos == IndexOfText(newContent, ReportTitle, 1) + Len(ReportTitle) IN
  IF sectionHeaderPos = 0 THEN file
  ELSE SubSeq(newContent, 1, afterTitlePos - 1)
         \o <<NL, NL, ReportProgress(currentSection, totalSections)>>
         \o SubSeq(newContent, afterTitlePos, Len(newContent))

\* text.replace(/<note>\n\n/g, "") for the notes in the given set
RemoveNotes(s, notes) ==
  LET starts == { i \in 1..(Len(s) - 2) :
                    s[i] \in notes /\ s[i + 1] = NL /\ s[i + 2] = NL }
      kept == SelectSeq([i \in 1..Len(s) |-> i],
                        LAMBDA i : {i, i - 1, i - 2} \cap starts = {}) IN
  [ k \in 1..Len(kept) |-> s[kept[k]] ]

\* text.replace(/\n\n\n+/g, "\n\n")
CollapseNewlines(s) ==
  LET kept == SelectSeq([i \in 1..Len(s) |-> i],
                        LAMBDA i : ~( /\ i + 2 <= Len(s)
                                      /\ s[i] = NL /\ s[i + 1] = NL /\ s[i + 2] = NL )) IN
  [ k \in 1..Len(kept) |-> s[kept[k]] ]

\* the file after finalizeReport(filePath)
finalizeReport(file) ==
  LET progress == { ReportProgress(c, n) : c \in 1..MaxSections, n \in 1..MaxSections }
      structure == { StructureNote(n) : n \in 0..MaxSections }
      withoutNotes == RemoveNotes(RemoveNotes(file, progress), structure) IN
  CollapseNewlines(
    SelectSeq(withoutNotes,
              LAMBDA a : a \notin { GeneratingPlaceholder,
                                       "*(Report generation in progress...)*" }))

(***************************************************************************)
(* generateReport                                                          *)
(*                                                                         *)
(* A generateWithGemini call is recorded when it is issued, together with  *)
(* the response it will resolve to; the action that follows the await      *)
(* reads that response.                                                    *)
(***************************************************************************)
\* generateMetadata(reportName, outputPath, undefined)
ReportMetadata ==
  <<"#", " ", "File Metadata", NL,
    "- **Report Name:** meeting", NL,
    "- **Report Generated:** 2025-01-01 00:00:00", NL,
    "- **Report Path:** out/meeting.md", NL, NL,
    "*Note: This metadata is generated from the file properties when the report was created.*",
    NL>>

ReportInitialContent ==
  ReportMetadata \o <<NL, NL>> \o ReportTitle \o <<NL, NL>>
    \o <<NL, "*(Report generation in progress...)*">>

\* what generateWithGemini resolves to when its attempts are exhausted
CallError == [error |-> TRUE, text |-> <<>>]

CallText(text) == [error |-> FALSE, text |-> text]

\* responses to the headings call: exhausted, cut off, without "sections",
\* and every outline of at most MaxSections entries
HeadingsResponses ==
  { CallError,
    CallText(<<"{", "\"sections\"", ":", "[">>),
    CallText(<<"{", "}">>) }
    \cup { CallText(HeadingsJson(o)) :
             o \in UNION { [1..n -> SectionTitles] : n \in 0..MaxSections } }

\* responses to a section call: exhausted, a narrative, a JSON object, a JSON
\* string, a short text, headings only, a narrative with a sub-heading
SectionResponses ==
  { CallError,
    CallText(<<"The team agreed to ship on Friday.">>),
    CallText(<<"{", "\"title\"", ":", "\"Decisions\"", "}">>),
    CallText(<<"\"The team agreed to ship on Friday.\"">>),
    CallText(<<"Done.">>),
    CallText(<<"#", "#", "#", " ", "Key points", NL, "#", "#", "#", " ", "Next steps">>),
    CallText(<<"Shipping plan.", NL, "#", "#", "#", " ", "Summary", NL, "Ship on Friday.">>) }

\* responses to the plain-text retry
RetryResponses ==
  { CallError,
    CallText(<<"In short, the release ships on Friday.">>),
    CallText(<<"{", "\"title\"", ":", "\"Decisions\"", "}">>) }

R_Init ==
  /\ r_pc = "start"
  /\ r_file = <<>>
  /\ r_headings = <<>>
  /\ r_i = 0
  /\ r_sectionContents = <<>>
  /\ r_calls = <<>>
  /\ r_steps = <<>>

\* lines 261-313: the initial file, the saved prompt, the headings call
R_Start ==
  /\ r_pc = "start"
  /\ r_file' = ReportInitialContent
  /\ r_steps' = Append(r_steps, "initial_prompt")
  /\ \E resp \in HeadingsResponses :
       r_calls' = Append(r_calls, [kind |-> "headings", section |-> 0, response |-> resp])
  /\ r_pc' = "headings"
  /\ UNCHANGED << R_Others, r_headings, r_i, r_sectionContents >>

\* variant: an unusable headings response falls back to a one-entry outline
R_HeadingsFallback ==
  /\ r_pc = "headings"
  /\ LET resp == r_calls[Len(r_calls)].response IN
     /\ resp.error \/ ~JsonParses(resp.text) \/ ~HasSections(resp.text)
     /\ r_headings' = << <<"Summary">> >>
     /\ r_file' = updateReportStructure(r_file, r_headings')
     /\ r_steps' = Append(r_steps, "generate_structure")
  /\ r_pc' = "loop"
  /\ UNCHANGED << R_Others, r_i, r_sectionContents, r_calls >>

\* lines 315-333 and 482-490: the response is an error, is not JSON, or has
\* no sections array; the error is saved and rethrown
R_HeadingsRejected ==
  /\ r_pc = "headings"
  /\ LET resp == r_calls[Len(r_calls)].response IN
     /\ resp.error \/ ~JsonParses(resp.text) \/ ~HasSections(resp.text)
     /\ r_steps' = IF resp.error THEN Append(r_steps, "error")
                   ELSE r_steps \o <<"generate_structure", "error">>
  /\ r_pc' = "thrown"
  /\ UNCHANGED << R_Others, r_file, r_headings, r_i, r_sectionContents, r_calls >>

\* lines 315-337: the outline is parsed and the placeholders are written
R_HeadingsAccepted ==
  /\ r_pc = "headings"
  /\ LET resp == r_calls[Len(r_calls)].response IN
     /\ ~resp.error /\ JsonParses(resp.text) /\ HasSections(resp.text)
     /\ r_headings' = ParseHeadings(resp.text)
     /\ r_file' = updateReportStructure(r_file, r_headings')
  /\ r_steps' = Append(r_steps, "generate_structure")
  /\ r_i' = 0
  /\ r_pc' = "loop"
  /\ UNCHANGED << R_Others, r_sectionContents, r_calls >>

\* lines 337-375: the section prompt is saved and the section call is issued
R_IssueSection ==
  /\ r_pc = "loop"
  /\ r_i < Len(r_headings)
  /\ r_steps' = Append(r_steps, "section_prompt")
  /\ \E resp \in SectionResponses :
       r_calls' = Append(r_calls, [kind |-> "section", section |-> r_i + 1,
                                   response |-> resp])
  /\ r_pc' = "first"
  /\ UNCHANGED << R_Others, r_file, r_headings, r_i, r_sectionContents >>

\* lines 410-449: sectionContent is pushed, written into the file and saved
R_WriteSection(sectionContent) ==
  /\ r_sectionContents' =
       Append(r_sectionContents,
              SectionPrefix \o r_headings[r_i + 1] \o <<NL, NL>> \o sectionContent)
  /\ r_file' = updateReportSection(r_file, r_headings[r_i + 1], sectionContent,
                                   r_i + 1, Len(r_headings))
  /\ r_steps' = Append(r_steps, "generate_section")
  /\ r_i' = r_i + 1
  /\ r_pc' = "loop"

\* lines 377-389 and 420-440: the call failed (placeholder) or its text is valid
R_FirstSettles ==
  /\ r_pc = "first"
  /\ LET resp == r_calls[Len(r_calls)].response IN
     /\ resp.error \/ isValidSectionContent(resp.text)
     /\ R_WriteSection(IF resp.error THEN ErrorPlaceholder ELSE resp.text)
  /\ UNCHANGED << R_Others, r_headings, r_calls >>

\* variant: an invalid text becomes the placeholder without a retry
R_SkipRetry ==
  /\ r_pc = "first"
  /\ LET resp == r_calls[Len(r_calls)].response IN
     /\ ~resp.error /\ ~isValidSectionContent(resp.text)
     /\ R_WriteSection(ErrorPlaceholder)
  /\ UNCHANGED << R_Others, r_headings, r_calls >>

\* lines 390-404: the text is invalid; the plain-text retry is issued
R_IssueRetry ==
  /\ r_pc = "first"
  /\ LET resp == r_calls[Len(r_calls)].response IN
     ~resp.error /\ ~isValidSectionContent(resp.text)
  /\ \E resp \in RetryResponses :
       r_calls' = Append(r_calls, [kind |-> "retry", section |-> r_i + 1,
                                   response |-> resp])
  /\ r_pc' = "retry"
  /\ UNCHANGED << R_Others, r_file, r_headings, r_i, r_sectionContents, r_steps >>

\* lines 406-419 and 433-449: the retry's text if valid, else the placeholder
R_RetrySettles ==
  /\ r_pc = "retry"
  /\ LET resp == r_calls[Len(r_calls)].response IN
     R_WriteSection(IF ~resp.error /\ isValidSectionContent(resp.text)
                    THEN resp.text ELSE ErrorPlaceholder)
  /\ UNCHANGED << R_Others, r_headings, r_calls >>

\* lines 470-481: finalizeReport and return
R_Finish ==
  /\ r_pc = "loop"
  /\ r_i = Len(r_headings)
  /\ r_file' = finalizeReport(r_file)
  /\ r_pc' = "done"
  /\ UNCHANGED << R_Others, r_headings, r_i, r_sectionContents, r_calls, r_steps >>

R_Next ==
  \/ R_Start
  \/ R_HeadingsRejected
  \/ R_HeadingsAccepted
  \/ R_IssueSection
  \/ R_FirstSettles
  \/ R_IssueRetry
  \/ R_RetrySettles
  \/ R_Finish

\* generateReport is not running
R_Idle ==
  /\ r_pc = "idle"
  /\ r_file = <<>>
  /\ r_headings = <<>>
  /\ r_i = 0
  /\ r_sectionContents = <<>>
  /\ r_calls = <<>>
  /\ r_steps = <<>>

(***************************************************************************)
(* Chunked upload: POST /api/init-upload, POST /api/upload-chunk/:jobId    *)
(* and the cleanup timer of a session.  Sizes are in KiB, time in hours.   *)
(***************************************************************************)
\* the job id crypto.randomUUID() can return, and an id that was never issued
JobIds == {"job-1", "job-9"}

\* fileSize of the request body: absent, one part, two parts, the ceiling,
\* above the ceiling
FileSizes == {0, UploadPartSize, UploadPartSize + 1, MaxFileSize, MaxFileSize + 1}

\* variant: no ceiling on the declared size
FileNeverTooLarge(fileSize) == FALSE

FileTooLarge(fileSize) == fileSize > MaxFileSize

\* the response to a request, with the fields of the request it answers
UploadReply(op, jobId, fileSize, status, receivedChunks, totalChunks, complete) ==
  [ op |-> op, jobId |-> jobId, fileSize |-> fileSize, status |-> status,
    receivedChunks |-> receivedChunks, totalChunks |-> totalChunks,
    complete |-> complete ]

U_Init ==
  /\ u_activeUploads = <<>>
  /\ u_dirs = <<>>
  /\ u_timers = <<>>
  /\ u_now = 0
  /\ u_reply = UploadReply("none", "none", 0, 0, 0, 0, FALSE)

\* POST /api/init-upload
U_InitUpload ==
  \E fileSize \in FileSizes, hasNameAndType \in BOOLEAN, hasApiKey \in BOOLEAN :
    IF ~hasNameAndType \/ fileSize = 0 \/ (~FileTooLarge(fileSize) /\ ~hasApiKey) THEN
      /\ u_reply' = UploadReply("init", "none", fileSize, 400, 0, 0, FALSE)
      /\ UNCHANGED << U_Others, u_activeUploads, u_dirs, u_timers, u_now >>
    ELSE IF FileTooLarge(fileSize) THEN
      /\ u_reply' = UploadReply("init", "none", fileSize, 413, 0, 0, FALSE)
      /\ UNCHANGED << U_Others, u_activeUploads, u_dirs, u_timers, u_now >>
    ELSE
      /\ "job-1" \notin DOMAIN u_timers
      /\ LET jobId == "job-1"
             uploadStatus ==
               [ fileSize |-> fileSize,
                 chunks |-> <<>>,
                 totalChunks |-> CeilDiv(fileSize, UploadPartSize),
                 receivedChunks |-> 0,
                 completed |-> FALSE,
                 createdAt |-> u_now ] IN
         /\ u_dirs' = (jobId :> {}) @@ u_dirs
         /\ u_activeUploads' = (jobId :> uploadStatus) @@ u_activeUploads
         /\ u_reply' = UploadReply("init", jobId, fileSize, 200, 0,
                                   uploadStatus.totalChunks, FALSE)
         /\ u_timers' = (jobId :> u_now + AbandonedAfterHours) @@ u_timers
      /\ UNCHANGED << U_Others, u_now >>

\* POST /api/upload-chunk/:jobId; multer stores the part as chunks/chunk-<index>
\* before the callback runs
U_UploadChunk ==
  \E jobId \in JobIds, chunkIndex \in 0..(MaxParts - 1), totalChunks \in 1..MaxParts,
     multer \in {"stored", "error", "no file"} :
    IF jobId \notin DOMAIN u_activeUploads THEN
      /\ u_reply' = UploadReply("chunk", jobId, 0, 404, 0, 0, FALSE)
      /\ UNCHANGED << U_Others, u_activeUploads, u_dirs, u_timers, u_now >>
    ELSE IF multer # "stored" THEN
      /\ u_reply' = UploadReply("chunk", jobId, 0, 400, 0, 0, FALSE)
      /\ UNCHANGED << U_Others, u_activeUploads, u_dirs, u_timers, u_now >>
    ELSE
      /\ u_activeUploads[jobId].receivedChunks < MaxDeliveries
      /\ LET uploadStatus == u_activeUploads[jobId]
             path == "chunk-" \o ToString(chunkIndex)
             receivedChunks == uploadStatus.receivedChunks + 1 IN
         /\ u_dirs' = [u_dirs EXCEPT ![jobId] = @ \cup {path}]
         /\ u_activeUploads' =
              [u_activeUploads EXCEPT
                 ![jobId].chunks = (chunkIndex :> path) @@ @,
                 ![jobId].receivedChunks = receivedChunks,
                 ![jobId].totalChunks = totalChunks]
         /\ u_reply' = UploadReply("chunk", jobId, 0, 200, receivedChunks, totalChunks,
                                   receivedChunks = totalChunks)
      /\ UNCHANGED << U_Others, u_timers, u_now >>

\* the setTimeout callback of a session, two hours after init-upload
U_CleanupTimer ==
  \E jobId \in DOMAIN u_timers :
    /\ u_timers[jobId] >= 0
    /\ u_now >= u_timers[jobId]
    /\ u_timers' = [u_timers EXCEPT ![jobId] = -1]
    /\ IF jobId \in DOMAIN u_activeUploads /\ ~u_activeUploads[jobId].completed
       THEN /\ u_activeUploads' =
                 [ j \in DOMAIN u_activeUploads \ {jobId} |-> u_activeUploads[j] ]
            /\ u_dirs' = [ j \in DOMAIN u_dirs \ {jobId} |-> u_dirs[j] ]
       ELSE UNCHANGED << u_activeUploads, u_dirs >>
    /\ UNCHANGED << U_Others, u_now, u_reply >>

\* an hour passes; a timer that is due runs first
U_Tick ==
  /\ u_now < MaxHours
  /\ \A jobId \in DOMAIN u_timers : u_timers[jobId] < 0 \/ u_now < u_timers[jobId]
  /\ u_now' = u_now + 1
  /\ UNCHANGED << U_Others, u_activeUploads, u_dirs, u_timers, u_reply >>

U_Next ==
  \/ U_InitUpload
  \/ U_UploadChunk
  \/ U_CleanupTimer
  \/ U_Tick

\* no upload request has been made
U_Idle ==
  /\ u_activeUploads = <<>>
  /\ u_dirs = <<>>
  /\ u_timers = <<>>
  /\ u_now = -1
  /\ u_reply = UploadReply("none", "none", 0, 0, 0, 0, FALSE)

(***************************************************************************)
(* One job: POST /api/process, processStreamingFile, processPollingFile,   *)
(* GET /api/jobs/:jobId and GET /api/results/:jobId/:type.  A connected    *)
(* client reads every event when it is written to the stream; writes to a  *)
(* connection the client has dropped are discarded.                        *)
(***************************************************************************)
\* parseInt(value) of a form field given as its characters: the leading run
\* of decimal digits, NaN when there is none (an absent field is <<>>)
ParseInt(value) ==
  LET digits == { ToString(d) : d \in 0..9 }
      lead == CHOOSE k \in 0..Len(value) :
                /\ \A i \in 1..k : value[i] \in digits
                /\ k = Len(value) \/ value[k + 1] \notin digits
      val[k \in 0..lead] ==
        IF k = 0 THEN 0
        ELSE 10 * val[k - 1] + (CHOOSE d \in 0..9 : ToString(d) = value[k]) IN
  [nan |-> lead = 0, value |-> val[lead]]

validateNumericParam(value, min, max, defaultValue) ==
  LET parsed == ParseInt(value) IN
  IF parsed.nan \/ parsed.value < min \/ parsed.value > max
  THEN defaultValue
  ELSE parsed.value

\* getTierConfig(tier) does not throw
ValidTiers == {"first", "business", "economy", "budget", "experimental"}

\* the requests of the model: with and without a file, with and without a
\* key, a valid and an unknown tier, screenshotCount "4", "99" and "x"
Requests ==
  [ hasFile : BOOLEAN,
    apiKey : {"", "key-A"},
    tier : {"business", "platinum"},
    screenshotCount : { <<"4">>, <<"9", "9">>, <<"x">> } ]

\* variant: the transcription stage reports 'processing' again
StageStatusRepeatsProcessing(stage) ==
  IF stage = "description" THEN "description_complete" ELSE "processing"

\* the status of the event sendSSE is called with when a stage is done
StageStatus(stage) ==
  CASE stage = "mediaInfo" -> "processing"
    [] stage = "screenshots" -> "processing"
    [] stage = "description" -> "description_complete"
    [] stage = "transcription" -> "transcription_complete"

\* the stage that runs after a stage
StageAfter(stage, isVideo) ==
  CASE stage = "mediaInfo" -> IF isVideo THEN "screenshots" ELSE "description"
    [] stage = "screenshots" -> "description"
    [] stage = "description" -> "transcription"
    [] stage = "transcription" -> "report"

\* what the client has seen: an event of the stream or the body of a poll
Observed(via, status) == [via |-> via, status |-> status]

\* res.write of events: the client sees them while it is connected
Delivered(observed, connected, sent) ==
  IF connected
  THEN observed \o [k \in 1..Len(sent) |-> Observed("push", sent[k])]
  ELSE observed

J_Init ==
  /\ j_pc = "request"
  /\ j_request \in Requests
  /\ j_envKey \in {"", "key-E"}
  /\ j_streamResponse \in BOOLEAN
  /\ j_isVideo \in BOOLEAN
  /\ j_large \in BOOLEAN
  /\ j_reply = [status |-> 0, jobId |-> "none"]
  /\ j_params = [tier |-> "", screenshotCount |-> 0]
  /\ j_dir = FALSE
  /\ j_connected = TRUE
  /\ j_events = <<>>
  /\ j_result = "none"
  /\ j_error = "none"
  /\ j_files = {}
  /\ j_keysUsed = {}
  /\ j_fetch = [type |-> "none", status |-> 0]
  /\ j_observed = <<>>

\* POST /api/process, lines 375-398 and 559-563: no file, no key at all, or
\* getTierConfig throws
J_Reject ==
  /\ j_pc = "request"
  /\ \/ ~j_request.hasFile
     \/ j_request.apiKey = "" /\ j_envKey = ""
     \/ j_request.tier \notin ValidTiers
  /\ j_reply' = [status |-> IF ~j_request.hasFile \/ (j_request.apiKey = "" /\ j_envKey = "")
                            THEN 400 ELSE 500,
                 jobId |-> "none"]
  /\ j_pc' = "rejected"
  /\ UNCHANGED << J_Others, j_request, j_envKey, j_streamResponse, j_isVideo, j_large,
                  j_params, j_dir, j_connected, j_events, j_result, j_error, j_files,
                  j_keysUsed, j_fetch, j_observed >>

\* POST /api/process, lines 399-463 and 548-557: the sanitized parameters, the
\* job directory, then the first event or the job id
J_Accept ==
  /\ j_pc = "request"
  /\ j_request.hasFile
  /\ j_request.apiKey # "" \/ j_envKey # ""
  /\ j_request.tier \in ValidTiers
  /\ j_params' = [tier |-> j_request.tier,
                  screenshotCount |->
                    validateNumericParam(j_request.screenshotCount, 1, 20, 4)]
  /\ j_dir' = TRUE
  /\ j_reply' = [status |-> 200, jobId |-> "job-1"]
  /\ IF j_streamResponse
     THEN /\ j_events' = <<"processing">>
          /\ j_observed' = <<Observed("push", "processing")>>
          /\ j_pc' = "mediaInfo"
     ELSE /\ j_pc' = "polling"
          /\ UNCHANGED << j_events, j_observed >>
  /\ UNCHANGED << J_Others, j_request, j_envKey, j_streamResponse, j_isVideo, j_large,
                  j_connected, j_result, j_error, j_files, j_keysUsed, j_fetch >>

\* processPollingFile: result.json with the status 'processing', nothing more
J_PollingFile ==
  /\ j_pc = "polling"
  /\ j_result' = "processing"
  /\ j_pc' = "returned"
  /\ UNCHANGED << J_Others, j_request, j_envKey, j_streamResponse, j_isVideo, j_large,
                  j_reply, j_params, j_dir, j_connected, j_events, j_error, j_files,
                  j_keysUsed, j_fetch, j_observed >>

\* variant: a stage waits for the client to be connected
J_StageDoneWhileConnected ==
  /\ j_connected
  /\ j_pc \in {"mediaInfo", "screenshots", "description", "transcription"}
  /\ j_events' = Append(j_events, StageStatus(j_pc))
  /\ j_observed' = Delivered(j_observed, j_connected, <<StageStatus(j_pc)>>)
  /\ IF j_pc \in {"description", "transcription"}
     THEN /\ j_keysUsed' = j_keysUsed \cup {j_envKey}
          /\ j_files' = j_files \cup {j_pc}
     ELSE UNCHANGED << j_keysUsed, j_files >>
  /\ j_pc' = StageAfter(j_pc, j_isVideo)
  /\ UNCHANGED << J_Others, j_request, j_envKey, j_streamResponse, j_isVideo, j_large,
                  j_reply, j_params, j_dir, j_connected, j_result, j_error, j_fetch >>

\* processStreamingFile, lines 573-674: a stage is done and its event is sent.
\* The description and the transcription stage make their generation calls
\* with the key generateWithGemini reads from process.env, and leave their
\* file in the job directory.
J_StageDone ==
  /\ j_pc \in {"mediaInfo", "screenshots", "description", "transcription"}
  /\ j_events' = Append(j_events, StageStatus(j_pc))
  /\ j_observed' = Delivered(j_observed, j_connected, <<StageStatus(j_pc)>>)
  /\ IF j_pc \in {"description", "transcription"}
     THEN /\ j_keysUsed' = j_keysUsed \cup {j_envKey}
          /\ j_files' = j_files \cup {j_pc}
     ELSE UNCHANGED << j_keysUsed, j_files >>
  /\ j_pc' = StageAfter(j_pc, j_isVideo)
  /\ UNCHANGED << J_Others, j_request, j_envKey, j_streamResponse, j_isVideo, j_large,
                  j_reply, j_params, j_dir, j_connected, j_result, j_error, j_fetch >>

\* processStreamingFile, lines 676-732: the report when it was asked for,
\* result.json, the final events (sendSSE sends a large summary in parts), the
\* end of the stream
J_Complete ==
  /\ j_pc = "report"
  /\ \E generateReport \in BOOLEAN :
       j_files' = IF generateReport THEN j_files \cup {"report"} ELSE j_files
  /\ j_result' = "completed"
  /\ LET sent == IF j_large
                 THEN <<"completed", "description_content", "transcription_content",
                        "fully_completed">>
                 ELSE <<"completed">> IN
     /\ j_events' = j_events \o sent
     /\ j_observed' = Delivered(j_observed, j_connected, sent)
  /\ j_pc' = "done"
  /\ UNCHANGED << J_Others, j_request, j_envKey, j_streamResponse, j_isVideo, j_large,
                  j_reply, j_params, j_dir, j_connected, j_error, j_keysUsed, j_fetch >>

\* variant: a failed stage is skipped and the next one runs
J_FailSkipsStage ==
  /\ j_pc \in {"description", "transcription"}
  /\ j_events' = Append(j_events, "failed")
  /\ j_observed' = Delivered(j_observed, j_connected, <<"failed">>)
  /\ j_error' = "failed"
  /\ j_pc' = StageAfter(j_pc, j_isVideo)
  /\ UNCHANGED << J_Others, j_request, j_envKey, j_streamResponse, j_isVideo, j_large,
                  j_reply, j_params, j_dir, j_connected, j_result, j_files, j_keysUsed,
                  j_fetch >>

\* processStreamingFile, lines 733-755: generateContentDescription,
\* generateDescription, generateTranscription or generateTechnicalReport
\* throws (getMediaInfo and generateScreenshots catch their errors); the
\* 'failed' event, the end of the stream, error.json
J_Fail ==
  /\ j_pc \in {"description", "transcription", "report"}
  /\ j_events' = Append(j_events, "failed")
  /\ j_observed' = Delivered(j_observed, j_connected, <<"failed">>)
  /\ j_error' = "failed"
  /\ j_pc' = "failed"
  /\ UNCHANGED << J_Others, j_request, j_envKey, j_streamResponse, j_isVideo, j_large,
                  j_reply, j_params, j_dir, j_connected, j_result, j_files, j_keysUsed,
                  j_fetch >>

\* the client drops the connection of the stream while the job runs
J_Disconnect ==
  /\ j_streamResponse
  /\ j_connected
  /\ j_pc \in {"mediaInfo", "screenshots", "description", "transcription", "report"}
  /\ j_connected' = FALSE
  /\ UNCHANGED << J_Others, j_request, j_envKey, j_streamResponse, j_isVideo, j_large,
                  j_reply, j_params, j_dir, j_pc, j_events, j_result, j_error, j_files,
                  j_keysUsed, j_fetch, j_observed >>

\* GET /api/jobs/:jobId: result.json, else error.json, else 404
J_Poll ==
  /\ j_pc \notin {"request", "rejected"}
  /\ Cardinality({ k \in 1..Len(j_observed) : j_observed[k].via = "poll" }) < MaxPolls
  /\ j_observed' =
       Append(j_observed,
              Observed("poll", IF j_result # "none" THEN j_result
                               ELSE IF j_error # "none" THEN j_error
                               ELSE "NOT_FOUND"))
  /\ UNCHANGED << J_Others, j_request, j_envKey, j_streamResponse, j_isVideo, j_large,
                  j_reply, j_params, j_dir, j_connected, j_pc, j_events, j_result,
                  j_error, j_files, j_keysUsed, j_fetch >>

\* GET /api/results/:jobId/:type: the file result.json names; 404 without
\* result.json; 500 when result.json has no outputs (the record
\* processPollingFile writes)
J_FetchResult ==
  /\ j_pc \notin {"request", "rejected"}
  /\ \E type \in {"description", "transcription", "report"} :
       j_fetch' =
         [ type |-> type,
           status |-> IF j_result = "none" THEN 404
                      ELSE IF j_result = "processing" THEN 500
                      ELSE IF type \in j_files THEN 200
                      ELSE 404 ]
  /\ UNCHANGED << J_Others, j_request, j_envKey, j_streamResponse, j_isVideo, j_large,
                  j_reply, j_params, j_dir, j_connected, j_pc, j_events, j_result,
                  j_error, j_files, j_keysUsed, j_observed >>

J_Next ==
  \/ J_Reject
  \/ J_Accept
  \/ J_PollingFile
  \/ J_StageDone
  \/ J_Complete
  \/ J_Fail
  \/ J_Disconnect
  \/ J_Poll
  \/ J_FetchResult

\* no job has been submitted
J_Idle ==
  /\ j_pc = "idle"
  /\ j_request = [hasFile |-> FALSE, apiKey |-> "", tier |-> "",
                  screenshotCount |-> <<>>]
  /\ j_envKey = ""
  /\ j_streamResponse = FALSE
  /\ j_isVideo = FALSE
  /\ j_large = FALSE
  /\ j_reply = [status |-> 0, jobId |-> "none"]
  /\ j_params = [tier |-> "", screenshotCount |-> 0]
  /\ j_dir = FALSE
  /\ j_connected = TRUE
  /\ j_events = <<>>
  /\ j_result = "none"
  /\ j_error = "none"
  /\ j_files = {}
  /\ j_keysUsed = {}
  /\ j_fetch = [type |-> "none", status |-> 0]
  /\ j_observed = <<>>

(***************************************************************************)
(* generateWithGemini: the retry loop and one processGenerationAttempt     *)
(* with at most one file.  The remote service answers each request; what   *)
(* it answers is not constrained.                                          *)
(***************************************************************************)
\* the error an attempt can throw: lastError instanceof GoogleGenerativeAIError
\* or not
AttemptErrors == {"GoogleGenerativeAIError", "Error"}

G_Init ==
  /\ g_pc = "loop"
  /\ g_maxRetries \in 1..MaxAttempts
  /\ g_retryDelayMs \in {DefaultRetryDelayMs, 500}
  /\ g_hasFile \in BOOLEAN
  /\ g_attempt = 0
  /\ g_lastError = "none"
  /\ g_log = <<>>
  /\ g_result = "none"

\* line 203 and lines 109-128: the loop condition holds and an attempt starts
G_BeginAttempt ==
  /\ g_pc = "loop"
  /\ g_attempt < g_maxRetries
  /\ g_log' = Append(g_log, "attempt")
  /\ g_pc' = IF g_hasFile THEN "uploadFile" ELSE "generateContent"
  /\ UNCHANGED << G_Others, g_maxRetries, g_retryDelayMs, g_hasFile, g_attempt,
                  g_lastError, g_result >>

\* lines 132-137: fileManager.uploadFile resolves
G_UploadResolves ==
  /\ g_pc = "uploadFile"
  /\ g_pc' = "getFile"
  /\ UNCHANGED << G_Others, g_maxRetries, g_retryDelayMs, g_hasFile, g_attempt,
                  g_lastError, g_log, g_result >>

\* lines 140-144: fileManager.getFile resolves; while the file is PROCESSING
\* the attempt waits and asks again
G_GetFileResolves ==
  /\ g_pc = "getFile"
  /\ \E state \in {"PROCESSING", "ACTIVE"} :
       g_pc' = IF state = "PROCESSING" THEN "wait" ELSE "generateContent"
  /\ UNCHANGED << G_Others, g_maxRetries, g_retryDelayMs, g_hasFile, g_attempt,
                  g_lastError, g_log, g_result >>

\* line 142: the 2000 ms timer of the wait fires
G_WaitOver ==
  /\ g_pc = "wait"
  /\ g_pc' = "getFile"
  /\ UNCHANGED << G_Others, g_maxRetries, g_retryDelayMs, g_hasFile, g_attempt,
                  g_lastError, g_log, g_result >>

\* lines 170-183 and 205: generateContent resolves, the files are cleaned up
\* and the result of the attempt is returned
G_AttemptSucceeds ==
  /\ g_pc = "generateContent"
  /\ g_result' = "text"
  /\ g_pc' = "returned"
  /\ UNCHANGED << G_Others, g_maxRetries, g_retryDelayMs, g_hasFile, g_attempt,
                  g_lastError, g_log >>

\* lines 146-148, 180-183 and 214-225: a request rejects or the file is FAILED;
\* the files are cleaned up, the error is caught, and the loop waits before
\* the next attempt unless this was the last one
G_AttemptThrows ==
  /\ g_pc \in {"uploadFile", "getFile", "generateContent"}
  /\ \E error \in AttemptErrors : g_lastError' = error
  /\ IF g_attempt < g_maxRetries - 1
     THEN /\ g_pc' = "retryDelay"
          /\ UNCHANGED g_attempt
     ELSE /\ g_pc' = "loop"
          /\ g_attempt' = g_attempt + 1
  /\ UNCHANGED << G_Others, g_maxRetries, g_retryDelayMs, g_hasFile, g_log, g_result >>

\* line 223 and line 203: the retryDelayMs timer fires, attempt++
G_RetryDelayOver ==
  /\ g_pc = "retryDelay"
  /\ g_log' = Append(g_log, ToString(g_retryDelayMs))
  /\ g_attempt' = g_attempt + 1
  /\ g_pc' = "loop"
  /\ UNCHANGED << G_Others, g_maxRetries, g_retryDelayMs, g_hasFile, g_lastError,
                  g_result >>

\* lines 228-241: every attempt failed; an error value is returned
G_Exhausted ==
  /\ g_pc = "loop"
  /\ g_attempt >= g_maxRetries
  /\ g_result' = IF g_lastError = "GoogleGenerativeAIError"
                 THEN "Gemini API Error"
                 ELSE "Unexpected error"
  /\ g_pc' = "returned"
  /\ UNCHANGED << G_Others, g_maxRetries, g_retryDelayMs, g_hasFile, g_attempt,
                  g_lastError, g_log >>

G_Next ==
  \/ G_BeginAttempt
  \/ G_UploadResolves
  \/ G_GetFileResolves
  \/ G_WaitOver
  \/ G_AttemptSucceeds
  \/ G_AttemptThrows
  \/ G_RetryDelayOver
  \/ G_Exhausted

\* generateWithGemini is not running
G_Idle ==
  /\ g_pc = "idle"
  /\ g_maxRetries = 0
  /\ g_retryDelayMs = 0
  /\ g_hasFile = FALSE
  /\ g_attempt = 0
  /\ g_lastError = "none"
  /\ g_log = <<>>
  /\ g_result = "none"

(***************************************************************************)
(* cleanupOldJobs and the job directories under uploads/.  A directory     *)
(* name is the characters of the first group of the job id, then "-" and   *)
(* the rest of the name.  Time is in whole days since 1970-01-01; the      *)
(* number cleanupOldJobs reads from a name is in milliseconds.             *)
(***************************************************************************)
\* the first group of a job id crypto.randomUUID() returns: with a hex letter,
\* and of decimal digits only
JobIdGroups ==
  { <<"3", "f", "2", "a", "9", "1", "c", "0">>,
    <<"1", "7", "0", "4", "2", "5", "6", "8">> }

\* path.join(uploads, `${jobId}-${basename}`) and path.join(uploads, jobId)
JobDirName(group) == group \o <<"-", "4b1d-8e5f-meeting">>

\* dir.match(/^(\d+)-/): whether it matches, and parseInt(match[1])
MatchTimestamp(dir) ==
  LET digits == { ToString(d) : d \in 0..9 }
      lead == CHOOSE k \in 0..Len(dir) :
                /\ \A i \in 1..k : dir[i] \in digits
                /\ k = Len(dir) \/ dir[k + 1] \notin digits IN
  [ matched |-> lead >= 1 /\ lead < Len(dir) /\ dir[lead + 1] = "-",
    timestamp |-> ParseInt(SubSeq(dir, 1, lead)).value ]

\* the directories left by cleanupOldJobs() at Date.now() = now days.  With
\* now a whole number of days, now * ONE_DAY - timestamp > 7 * ONE_DAY holds
\* exactly when timestamp \div ONE_DAY < now - 7.
cleanupOldJobs(dirs, now) ==
  { dir \in dirs :
      ~( /\ MatchTimestamp(dir).matched
         /\ MatchTimestamp(dir).timestamp \div ONE_DAY < now - JOB_RETENTION_DAYS ) }

K_Init ==
  /\ k_now = ServerStartDay
  /\ k_created = <<>>
  /\ k_dirs = {}
  /\ k_due = TRUE

\* POST /api/process and POST /api/init-upload: the job directory is made
K_Submit ==
  /\ \E group \in JobIdGroups :
       /\ JobDirName(group) \notin DOMAIN k_created
       /\ k_created' = (JobDirName(group) :> k_now) @@ k_created
       /\ k_dirs' = k_dirs \cup {JobDirName(group)}
  /\ UNCHANGED << K_Others, k_now, k_due >>

\* the timer callback: one minute after the start, then every day
K_Cleanup ==
  /\ k_due
  /\ k_dirs' = cleanupOldJobs(k_dirs, k_now)
  /\ k_due' = FALSE
  /\ UNCHANGED << K_Others, k_now, k_created >>

\* a day passes and the daily timer is due
K_Tick ==
  /\ ~k_due
  /\ k_now < ServerStartDay + MaxDays
  /\ k_now' = k_now + 1
  /\ k_due' = TRUE
  /\ UNCHANGED << K_Others, k_created, k_dirs >>

K_Next ==
  \/ K_Submit
  \/ K_Cleanup
  \/ K_Tick

\* the server is not running
K_Idle ==
  /\ k_now = 0
  /\ k_created = <<>>
  /\ k_dirs = {}
  /\ k_due = FALSE

(***************************************************************************)
(* processGenerationAttempt with several files: files.map starts one       *)
(* callback per file, Promise.all waits for all of them and rejects with   *)
(* the first one that throws.  A callback whose sibling has thrown keeps   *)
(* running.                                                                *)
(***************************************************************************)
A_Init ==
  /\ a_pc = "processing"
  /\ \E n \in 0..MaxFiles : a_state = [f \in 1..n |-> "uploadFile"]
  /\ a_uploadedFiles = {}
  /\ a_deleteRequested = {}

\* lines 132-137: fileManager.uploadFile resolves for a file; its name is
\* pushed to uploadedFiles
A_UploadResolves ==
  /\ \E f \in DOMAIN a_state :
       /\ a_state[f] = "uploadFile"
       /\ a_state' = [a_state EXCEPT ![f] = "getFile"]
       /\ a_uploadedFiles' = a_uploadedFiles \cup {f}
  /\ UNCHANGED << A_Others, a_pc, a_deleteRequested >>

\* lines 140-144: fileManager.getFile resolves; while the file is PROCESSING
\* the callback waits 2000 ms and asks again
A_GetFileResolves ==
  /\ \E f \in DOMAIN a_state, state \in {"PROCESSING", "ACTIVE"} :
       /\ a_state[f] = "getFile"
       /\ a_state' = [a_state EXCEPT ![f] = IF state = "ACTIVE" THEN "active" ELSE @]
  /\ UNCHANGED << A_Others, a_pc, a_uploadedFiles, a_deleteRequested >>

\* lines 129-148 and 180-183: the callback of a file throws (uploadFile or
\* getFile rejects, or the file is FAILED).  The first throw rejects
\* Promise.all: the finally block calls cleanupFiles with the files pushed so
\* far and the attempt throws.
A_FileThrows ==
  /\ \E f \in DOMAIN a_state :
       /\ a_state[f] \in {"uploadFile", "getFile"}
       /\ a_state' = [a_state EXCEPT ![f] = "thrown"]
  /\ IF a_pc = "processing"
     THEN /\ a_deleteRequested' = a_uploadedFiles
          /\ a_pc' = "thrown"
     ELSE UNCHANGED << a_pc, a_deleteRequested >>
  /\ UNCHANGED << A_Others, a_uploadedFiles >>

\* lines 160-183: every file is ACTIVE; generateContent settles, the finally
\* block calls cleanupFiles and the attempt returns or throws
A_GenerateSettles ==
  /\ a_pc = "processing"
  /\ \A f \in DOMAIN a_state : a_state[f] = "active"
  /\ a_deleteRequested' = a_uploadedFiles
  /\ \E ok \in BOOLEAN : a_pc' = IF ok THEN "returned" ELSE "thrown"
  /\ UNCHANGED << A_Others, a_state, a_uploadedFiles >>

A_Next ==
  \/ A_UploadResolves
  \/ A_GetFileResolves
  \/ A_FileThrows
  \/ A_GenerateSettles

\* no attempt is running
A_Idle ==
  /\ a_pc = "idle"
  /\ a_state = <<>>
  /\ a_uploadedFiles = {}
  /\ a_deleteRequested = {}

(***************************************************************************)
(* rateLimiter: the middleware every request passes first.  Status 200     *)
(* stands for next().                                                      *)
(***************************************************************************)
ClientIps == {"10.0.0.1", "10.0.0.2"}

RequestPaths == {"/health", "/api/jobs"}

\* the model looks at the clock once per window length
TickMs == windowMs

\* the values Date.now() takes in the model
Times == { TickMs * k : k \in 0..MaxTicks }

\* variant: health checks are counted as well
rateLimiterCountsHealth(requestCounts, ip, path, now) ==
  IF ip \notin DOMAIN requestCounts \/ requestCounts[ip].resetTime < now
  THEN [ requestCounts |-> (ip :> [count |-> 1, resetTime |-> now + windowMs])
                           @@ requestCounts,
         status |-> 200 ]
  ELSE [ requestCounts |-> [requestCounts EXCEPT ![ip].count = @ + 1],
         status |-> IF requestCounts[ip].count + 1 > maxRequestsPerWindow
                    THEN 429 ELSE 200 ]

\* the middleware: the map after the request and the status of the answer
rateLimiter(requestCounts, ip, path, now) ==
  IF path = "/health"
  THEN [requestCounts |-> requestCounts, status |-> 200]
  ELSE IF ip \notin DOMAIN requestCounts \/ requestCounts[ip].resetTime < now
  THEN [ requestCounts |-> (ip :> [count |-> 1, resetTime |-> now + windowMs])
                           @@ requestCounts,
         status |-> 200 ]
  ELSE [ requestCounts |-> [requestCounts EXCEPT ![ip].count = @ + 1],
         status |-> IF requestCounts[ip].count + 1 > maxRequestsPerWindow
                    THEN 429 ELSE 200 ]

\* the number of requests a history holds for an ip between two times
RECURSIVE CountBetween(_, _, _, _)
CountBetween(history, ip, from, to) ==
  IF from > to THEN 0
  ELSE (IF from \in Times THEN history[ip][from] ELSE 0)
       + CountBetween(history, ip, from + TickMs, to)

\* the requests not for /health so far
RequestsSeen ==
  LET ips == CHOOSE s \in [1..Cardinality(ClientIps) -> ClientIps] :
               \A i, j \in DOMAIN s : i # j => s[i] # s[j]
      total[k \in 0..Len(ips)] ==
        IF k = 0 THEN 0
        ELSE total[k - 1] + CountBetween(l_seen, ips[k], 0, l_now) IN
  total[Len(ips)]

L_Init ==
  /\ l_now = 0
  /\ l_requestCounts = <<>>
  /\ l_seen = [ip \in ClientIps |-> [t \in Times |-> 0]]
  /\ l_admitted = [ip \in ClientIps |-> [t \in Times |-> 0]]
  /\ l_windows = [ip \in ClientIps |-> {}]
  /\ l_last = [ip |-> "none", path |-> "none", now |-> 0, status |-> 0]

\* a request arrives
L_Request ==
  /\ \E ip \in ClientIps, path \in RequestPaths :
       LET reply == rateLimiter(l_requestCounts, ip, path, l_now)
           started == /\ ip \in DOMAIN reply.requestCounts
                      /\ \/ ip \notin DOMAIN l_requestCounts
                         \/ l_requestCounts[ip].resetTime
                            # reply.requestCounts[ip].resetTime IN
       /\ path # "/health" => RequestsSeen < MaxRequests
       /\ l_requestCounts' = reply.requestCounts
       /\ l_last' = [ip |-> ip, path |-> path, now |-> l_now, status |-> reply.status]
       /\ l_seen' = IF path = "/health" THEN l_seen
                    ELSE [l_seen EXCEPT ![ip][l_now] = @ + 1]
       /\ l_admitted' = IF path = "/health" \/ reply.status # 200 THEN l_admitted
                        ELSE [l_admitted EXCEPT ![ip][l_now] = @ + 1]
       /\ l_windows' = IF started THEN [l_windows EXCEPT ![ip] = @ \cup {l_now}]
                       ELSE l_windows
  /\ UNCHANGED << L_Others, l_now >>

\* time passes
L_Tick ==
  /\ l_now < TickMs * MaxTicks
  /\ l_now' = l_now + TickMs
  /\ UNCHANGED << L_Others, l_requestCounts, l_seen, l_admitted, l_windows, l_last >>

L_Next ==
  \/ L_Request
  \/ L_Tick

\* the server is not running
L_Idle ==
  /\ l_now = 0
  /\ l_requestCounts = <<>>
  /\ l_seen = <<>>
  /\ l_admitted = <<>>
  /\ l_windows = <<>>
  /\ l_last = [ip |-> "none", path |-> "none", now |-> 0, status |-> 0]

(***************************************************************************)
(* sendSSE.  An artifact text is a sequence of blocks of BlockChars        *)
(* characters each; an event is its status and the artifact texts it       *)
(* carries, by field name.  A field that is absent or null is not in the   *)
(* domain of texts.                                                        *)
(***************************************************************************)
BlockChars == FieldThreshold \div 2

\* text.length
TextLength(text) == BlockChars * Len(text)

\* a text of n blocks
TextOf(label, n) == [k \in 1..n |-> label \o "-" \o ToString(k)]

TruncationMark == "... [content truncated for streaming]"

\* text.substring(0, 1000) + '... [content truncated for streaming]'
TruncateForStreaming(text) ==
  SubSeq(text, 1, FieldThreshold \div BlockChars) \o <<TruncationMark>>

ArtifactFields == <<"description", "transcription", "report">>

\* JSON.stringify(data).length: the texts and EnvelopeChars characters for
\* the other fields, the names and the punctuation
EnvelopeChars == 400

JsonLength(data) ==
  LET total[k \in 0..Len(ArtifactFields)] ==
        IF k = 0 THEN EnvelopeChars
        ELSE total[k - 1]
             + (IF ArtifactFields[k] \in DOMAIN data.texts
                THEN TextLength(data.texts[ArtifactFields[k]]) ELSE 0) IN
  total[Len(ArtifactFields)]

\* an event of the stream
SseEvent(status, texts) == [status |-> status, texts |-> texts]

\* the events sendSSE writes for data with a large field: description_content,
\* transcription_content, report_content
ContentEvents(data) ==
  LET large == SelectSeq(ArtifactFields,
                         LAMBDA a : /\ a \in DOMAIN data.texts
                                    /\ TextLength(data.texts[a]) > FieldThreshold) IN
  [ k \in 1..Len(large) |->
      SseEvent(large[k] \o "_content", large[k] :> data.texts[large[k]]) ]

\* variant: the report is not sent in an event of its own
sendSSEWithoutReportContent(data) ==
  IF JsonLength(data) > FrameThreshold
  THEN <<SseEvent(data.status,
                  [a \in DOMAIN data.texts |->
                     IF TextLength(data.texts[a]) > FieldThreshold
                     THEN TruncateForStreaming(data.texts[a])
                     ELSE data.texts[a]])>>
       \o (IF data.status = "completed"
           THEN SelectSeq(ContentEvents(data), LAMBDA e : e.status # "report_content")
                \o <<SseEvent("fully_completed", <<>>)>>
           ELSE <<>>)
  ELSE <<data>>

\* sendSSE(data): the events it writes, in order
sendSSE(data) ==
  IF JsonLength(data) > FrameThreshold
  THEN <<SseEvent(data.status,
                  [a \in DOMAIN data.texts |->
                     IF TextLength(data.texts[a]) > FieldThreshold
                     THEN TruncateForStreaming(data.texts[a])
                     ELSE data.texts[a]])>>
       \o (IF data.status = "completed"
           THEN ContentEvents(data) \o <<SseEvent("fully_completed", <<>>)>>
           ELSE <<>>)
  ELSE <<data>>

\* the lengths of an artifact text, in blocks
TextBlocks == {1, 2, 3, MaxTextBlocks}

\* the events processStreamingFile calls sendSSE with that carry artifact
\* texts: transcription_complete, and completed with and without a report
SseData ==
  { SseEvent(status, texts) :
      status \in {"completed"},
      texts \in { ("description" :> TextOf("d", d)) @@ ("transcription" :> TextOf("t", t))
                  @@ ("report" :> TextOf("r", r)) : d, t, r \in TextBlocks } }
  \cup
  { SseEvent(status, texts) :
      status \in {"transcription_complete", "completed"},
      texts \in { ("description" :> TextOf("d", d)) @@ ("transcription" :> TextOf("t", t))
                  : d, t \in TextBlocks } }

E_Init ==
  /\ e_pc = "call"
  /\ e_data \in SseData
  /\ e_written = <<>>

\* lines 475-545
E_SendSSE ==
  /\ e_pc = "call"
  /\ e_written' = sendSSE(e_data)
  /\ e_pc' = "written"
  /\ UNCHANGED << E_Others, e_data >>

E_Next == E_SendSSE

\* sendSSE is not running
E_Idle ==
  /\ e_pc = "idle"
  /\ e_data = SseEvent("none", <<>>)
  /\ e_written = <<>>

(***************************************************************************)
(* The parameters of one streaming job: what POST /api/process makes of    *)
(* the form fields, and what processStreamingFile hands to the stages.  A  *)
(* numeric field is its characters, an absent field is <<>> (the tier: "").*)
(***************************************************************************)
\* tier.toLowerCase() for the tiers of the model
ToLowerCase(tier) ==
  CASE tier = "First" -> "first"
    [] OTHER -> tier

\* value || fallback for a string
OrElse(value, fallback) == IF value = "" THEN fallback ELSE value

\* the number JavaScript takes a numeric form field for in i <= count and
\* in chunkMinutes * 60; undefined when the field is absent
NumberOf(value, undefined) ==
  IF ParseInt(value).nan THEN undefined ELSE ParseInt(value).value

\* the form fields of the model
Bodies ==
  [ tier : {"", "economy", "First"},
    screenshotCount : { <<>>, <<"4">>, <<"9", "9">> },
    audioChunkMinutes : { <<>>, <<"5">>, <<"4", "5">> },
    instructions : { TextOf("i", n) : n \in {0, 1, InstructionsLimit \div BlockChars + 1} },
    generateReport : {"", "true", "1", "false"} ]

P_Init ==
  /\ p_pc = "request"
  /\ p_body \in Bodies
  /\ p_isVideo \in BOOLEAN
  /\ p_accepted = <<>>
  /\ p_used = <<>>
  /\ p_runs = <<>>
  /\ p_delivered = <<>>
  /\ p_prompted = <<>>

\* POST /api/process, lines 399-431 and 466-472: the sanitized parameters;
\* the body itself is handed to processStreamingFile
P_Submit ==
  /\ p_pc = "request"
  /\ ToLowerCase(OrElse(p_body.tier, "business")) \in ValidTiers
  /\ p_accepted' =
       [ tier |-> ToLowerCase(OrElse(p_body.tier, "business")),
         screenshotCount |-> validateNumericParam(p_body.screenshotCount, 1, 20, 4),
         audioChunkMinutes |-> validateNumericParam(p_body.audioChunkMinutes, 1, 30, 10),
         instructions |-> SubSeq(p_body.instructions, 1,
                                 Min(Len(p_body.instructions),
                                     InstructionsLimit \div BlockChars)),
         generateReport |-> p_body.generateReport \in {"true", "1"} ]
  /\ p_pc' = "description"
  /\ UNCHANGED << P_Others, p_body, p_isVideo, p_used, p_runs, p_delivered,
                  p_prompted >>

\* processStreamingFile, lines 573-631: generateScreenshots for a video,
\* getTierConfig, generateContentDescription, the description file and the
\* description_complete event
P_Describe ==
  /\ p_pc = "description"
  /\ OrElse(p_body.tier, "business") \in ValidTiers
  /\ \E description \in Descriptions :
       /\ p_runs' = Append(p_runs, description)
       /\ p_delivered' = description
  /\ p_used' =
       (IF p_isVideo
        THEN "screenshotCount" :> NumberOf(p_body.screenshotCount, 0)
        ELSE <<>>)
       @@ [ tier |-> OrElse(p_body.tier, "business"),
            audioChunkMinutes |-> NumberOf(p_body.audioChunkMinutes, 10),
            instructions |-> p_body.instructions ]
  /\ p_pc' = "transcription"
  /\ UNCHANGED << P_Others, p_body, p_isVideo, p_accepted, p_prompted >>

\* processStreamingFile, lines 633-674: generateDescription once more, then
\* generateTranscription with its result
P_Transcribe ==
  /\ p_pc = "transcription"
  /\ \E description \in Descriptions :
       /\ p_runs' = Append(p_runs, description)
       /\ p_prompted' = description
  /\ p_pc' = "report"
  /\ UNCHANGED << P_Others, p_body, p_isVideo, p_accepted, p_used, p_delivered >>

\* processStreamingFile, lines 676-732: the report when
\* req.body.generateReport is 'true', then the summary
P_Report ==
  /\ p_pc = "report"
  /\ p_used' = ("generateReport" :> (p_body.generateReport = "true")) @@ p_used
  /\ p_pc' = "done"
  /\ UNCHANGED << P_Others, p_body, p_isVideo, p_accepted, p_runs, p_delivered,
                  p_prompted >>

\* processStreamingFile, lines 733-755: getTierConfig or a stage throws
P_Fail ==
  /\ p_pc \in {"description", "transcription", "report"}
  /\ p_pc' = "failed"
  /\ UNCHANGED << P_Others, p_body, p_isVideo, p_accepted, p_used, p_runs,
                  p_delivered, p_prompted >>

P_Next ==
  \/ P_Submit
  \/ P_Describe
  \/ P_Transcribe
  \/ P_Report
  \/ P_Fail

\* no job has been submitted
P_Idle ==
  /\ p_pc = "idle"
  /\ p_body = [tier |-> "", screenshotCount |-> <<>>, audioChunkMinutes |-> <<>>,
               instructions |-> <<>>, generateReport |-> ""]
  /\ p_isVideo = FALSE
  /\ p_accepted = <<>>
  /\ p_used = <<>>
  /\ p_runs = <<>>
  /\ p_delivered = <<>>
  /\ p_prompted = <<>>

(***************************************************************************)
(* Specifications                                                          *)
(***************************************************************************)
\* the transcription stage
Init == T_Init /\ C_Idle /\ S_Idle /\ D_Idle /\ R_Idle /\ U_Idle /\ J_Idle /\ G_Idle /\ K_Idle /\ A_Idle /\ L_Idle /\ E_Idle /\ P_Idle

Next == T_Next

Spec == Init /\ [][Next]_vars

\* audio decomposition
InitChunks == C_Init /\ T_Idle /\ S_Idle /\ D_Idle /\ R_Idle /\ U_Idle /\ J_Idle /\ G_Idle /\ K_Idle /\ A_Idle /\ L_Idle /\ E_Idle /\ P_Idle

NextChunks == C_Next

SpecChunks == InitChunks /\ [][NextChunks]_vars

\* screenshots
InitShots == S_Init /\ T_Idle /\ C_Idle /\ D_Idle /\ R_Idle /\ U_Idle /\ J_Idle /\ G_Idle /\ K_Idle /\ A_Idle /\ L_Idle /\ E_Idle /\ P_Idle

NextShots == S_Next

SpecShots == InitShots /\ [][NextShots]_vars

\* the description stage
InitDescribe == D_Init /\ T_Idle /\ C_Idle /\ S_Idle /\ R_Idle /\ U_Idle /\ J_Idle /\ G_Idle /\ K_Idle /\ A_Idle /\ L_Idle /\ E_Idle /\ P_Idle

NextDescribe == D_Next

SpecDescribe == InitDescribe /\ [][NextDescribe]_vars

\* generateReport
InitReport == R_Init /\ T_Idle /\ C_Idle /\ S_Idle /\ D_Idle /\ U_Idle /\ J_Idle /\ G_Idle /\ K_Idle /\ A_Idle /\ L_Idle /\ E_Idle /\ P_Idle

SpecReport == InitReport /\ [][R_Next]_vars

\* chunked upload
InitUpload == U_Init /\ T_Idle /\ C_Idle /\ S_Idle /\ D_Idle /\ R_Idle /\ J_Idle /\ G_Idle /\ K_Idle /\ A_Idle /\ L_Idle /\ E_Idle /\ P_Idle

SpecUpload == InitUpload /\ [][U_Next]_vars

\* one job
InitJob == J_Init /\ T_Idle /\ C_Idle /\ S_Idle /\ D_Idle /\ R_Idle /\ U_Idle /\ G_Idle /\ K_Idle /\ A_Idle /\ L_Idle /\ E_Idle /\ P_Idle

SpecJob == InitJob /\ [][J_Next]_vars

\* one generateWithGemini call; the event loop runs every continuation and
\* every timer that is due
InitGemini ==
  G_Init /\ T_Idle /\ C_Idle /\ S_Idle /\ D_Idle /\ R_Idle /\ U_Idle /\ J_Idle /\ K_Idle /\ A_Idle /\ L_Idle /\ E_Idle /\ P_Idle

SpecGemini == InitGemini /\ [][G_Next]_vars /\ WF_vars(G_Next)

\* the job directories
InitCleanup ==
  K_Init /\ T_Idle /\ C_Idle /\ S_Idle /\ D_Idle /\ R_Idle /\ U_Idle /\ J_Idle /\ G_Idle /\ A_Idle /\ L_Idle /\ E_Idle /\ P_Idle

SpecCleanup == InitCleanup /\ [][K_Next]_vars

\* one generation attempt with several files
InitAttempt ==
  A_Init /\ T_Idle /\ C_Idle /\ S_Idle /\ D_Idle /\ R_Idle /\ U_Idle /\ J_Idle /\ G_Idle /\ K_Idle /\ L_Idle /\ E_Idle /\ P_Idle

SpecAttempt == InitAttempt /\ [][A_Next]_vars

\* the rate limiter
InitLimiter ==
  L_Init /\ T_Idle /\ C_Idle /\ S_Idle /\ D_Idle /\ R_Idle /\ U_Idle /\ J_Idle /\ G_Idle /\ K_Idle /\ A_Idle /\ E_Idle /\ P_Idle

SpecLimiter == InitLimiter /\ [][L_Next]_vars

\* one call of sendSSE
InitSse ==
  E_Init /\ T_Idle /\ C_Idle /\ S_Idle /\ D_Idle /\ R_Idle /\ U_Idle /\ J_Idle /\ G_Idle /\ K_Idle /\ A_Idle /\ L_Idle /\ P_Idle

SpecSse == InitSse /\ [][E_Next]_vars

\* the parameters of one streaming job
InitParams ==
  P_Init /\ T_Idle /\ C_Idle /\ S_Idle /\ D_Idle /\ R_Idle /\ U_Idle /\ J_Idle /\ G_Idle /\ K_Idle /\ A_Idle /\ L_Idle /\ E_Idle

SpecParams == InitParams /\ [][P_Next]_vars

(***************************************************************************)
(* Properties                                                              *)
(***************************************************************************)
Range(f) == {f[x] : x \in DOMAIN f}

\* the transcript entry that the outcome of chunk k calls for
OutcomeEntry(k) ==
  IF t_outcomes[k].kind = "ok"
  THEN ReplaceSpeakerTags(Trim(t_outcomes[k].text))
  ELSE <<NL, "[Transcription error for chunk " \o ToString(k) \o "]", NL>>

\* the concatenation of the entries of chunks 1..k
RECURSIVE ExpectedContent(_)
ExpectedContent(k) ==
  IF k = 0 THEN <<>>
  ELSE ExpectedContent(k - 1)
       \o (IF t_outcomes[k].kind = "ok" /\ k > 1 THEN <<NL, NL>> ELSE <<>>)
       \o OutcomeEntry(k)

\* the context that the last successful chunk among 1..k leaves behind
RECURSIVE LastSuccessContext(_)
LastSuccessContext(k) ==
  IF k = 0 THEN <<>>
  ELSE IF t_outcomes[k].kind = "ok"
       THEN GetLastNLines(OutcomeEntry(k), ContextLines)
       ELSE LastSuccessContext(k - 1)

\* C1: the call for chunk k is issued only when every earlier chunk has an
\* outcome and a recorded transcript entry, and at most one generation call
\* is pending at any time.
C1_SequentialCalls ==
  /\ Cardinality(t_inFlight) <= 1
  /\ \A k \in DOMAIN t_prompts :
       /\ \A j \in 1..(k - 1) : j \in DOMAIN t_outcomes /\ j \notin t_inFlight
       /\ k - 1 <= Len(t_chunkTranscriptions)

C1_Witness ==
  /\ Len(t_chunks) = 3
  /\ t_inFlight = {3}
  /\ t_outcomes[1].kind = "ok"
  /\ t_outcomes[2].kind = "error"

\* C2: when generateTranscription returns there is exactly one transcript
\* entry per audio chunk, entry k is the cleaned text or the error marker of
\* chunk k, and the transcript content is the entries in chunk order; while
\* the loop runs there is one entry per finished chunk.
C2_OneEntryPerSegment ==
  /\ t_pc \in {"loop", "await", "done"} => Len(t_chunkTranscriptions) = t_i
  /\ t_pc = "done" =>
       /\ Len(t_chunkTranscriptions) = Len(t_chunks)
       /\ \A k \in 1..Len(t_chunks) : t_chunkTranscriptions[k] = OutcomeEntry(k)
       /\ t_content = ExpectedContent(Len(t_chunks))

C2_Witness ==
  /\ t_pc = "done"
  /\ Len(t_chunks) = 3
  /\ t_outcomes[1].kind = "throw"
  /\ t_outcomes[2].kind = "ok"
  /\ t_outcomes[2].text = LongResponse
  /\ t_outcomes[3].kind = "error"

\* C3: a failed chunk leaves the context unchanged: the prompt of the next
\* chunk carries the context the failed chunk was given, and every prompt
\* carries the last lines of the last chunk that succeeded before it.
C3_ErrorKeepsContext ==
  \A k \in DOMAIN t_prompts :
    (\A j \in 1..(k - 1) : j \in DOMAIN t_outcomes) =>
      /\ (k > 1 /\ t_outcomes[k - 1].kind # "ok") =>
           t_prompts[k].previousTranscription = t_prompts[k - 1].previousTranscription
      /\ t_prompts[k].previousTranscription = LastSuccessContext(k - 1)

C3_Witness ==
  /\ 3 \in DOMAIN t_prompts
  /\ t_outcomes[1].kind = "ok"
  /\ t_outcomes[1].text = LongResponse
  /\ t_outcomes[2].kind = "throw"
  /\ Len(SplitLines(t_prompts[3].previousTranscription)) = ContextLines

\* C4: a failed chunk does not abort generateTranscription: its entry is the
\* marker "[Transcription error for chunk k]", which is also in the visible
\* file, the function never leaves its loop abnormally, and when it returns
\* a call was issued for every chunk.
C4_ChunkFailureIsLocal ==
  /\ t_pc \in {"loop", "await", "result", "caught", "done"}
  /\ \A k \in 1..Len(t_chunkTranscriptions) :
       (k \in DOMAIN t_outcomes /\ t_outcomes[k].kind # "ok") =>
         /\ t_chunkTranscriptions[k] = ErrorText(k)
         /\ IndexOf(t_file, "[Transcription error for chunk " \o ToString(k) \o "]") > 0
  /\ t_pc = "done" =>
       /\ DOMAIN t_prompts = 1..Len(t_chunks)
       /\ DOMAIN t_outcomes = 1..Len(t_chunks)

C4_Witness ==
  /\ t_pc = "done"
  /\ Len(t_chunks) = 3
  /\ t_outcomes[1].kind = "error"
  /\ t_outcomes[2].kind = "throw"
  /\ t_outcomes[3].kind = "ok"

\* what the transcription file shows after its first transcript heading
AfterHeader(file) == SubSeq(file, IndexOf(file, FullHdr) + 1, Len(file))

\* C5: whenever the call of chunk i+1 is about to be issued or is pending
\* (i >= 1), the transcription file shows, after its heading, the progress
\* line for i chunks and the concatenated outcomes of chunks 1..i.
C5_PartialTranscriptVisible ==
  (t_pc \in {"loop", "await"} /\ t_i >= 1) =>
    /\ IndexOf(t_file, FullHdr) > 0
    /\ AfterHeader(t_file) =
         ProgressIndicator(t_i, Len(t_chunks), FALSE) \o <<NL, NL>>
         \o ExpectedContent(t_i)

C5_Witness ==
  /\ t_pc = "await"
  /\ t_i = 2
  /\ t_inFlight = {3}
  /\ IndexOf(t_description, FullHdr) > 0
  /\ t_outcomes[1].kind = "ok"
  /\ t_outcomes[1].text # <<>>
  /\ t_outcomes[2].kind = "error"

\* C6: for a positive duration the returned chunks start at 0, end at the
\* duration, every adjacent pair overlaps by exactly the overlap length and
\* every chunk but the last has the full chunk length.
C6_ExactOverlapCover ==
  (c_pc = "returned" /\ c_probe.duration > 0) =>
    /\ Len(c_chunks) >= 1
    /\ c_chunks[1].startTime = 0
    /\ c_chunks[Len(c_chunks)].endTime = c_probe.duration
    /\ \A k \in 1..(Len(c_chunks) - 1) :
         /\ c_chunks[k].endTime - c_chunks[k + 1].startTime
              = OverlapDuration(c_overlapMinutes)
         /\ c_chunks[k].endTime - c_chunks[k].startTime
              = ChunkDuration(c_chunkMinutes)

\* C7: a 25-minute source cut with 10-minute chunks and 1 minute of overlap
\* gives the chunks [0,600], [540,1140], [1080,1500] (seconds), and the
\* transcription returns exactly 3 transcript entries.
C7_TwentyFiveMinutes ==
  t_source = [duration |-> 1500, chunkMinutes |-> 10] =>
    /\ t_chunks = << [index |-> 0, startTime |-> 0, endTime |-> 600],
                     [index |-> 1, startTime |-> 540, endTime |-> 1140],
                     [index |-> 2, startTime |-> 1080, endTime |-> 1500] >>
    /\ t_pc = "done" => Len(t_chunkTranscriptions) = 3

C7_Witness ==
  /\ t_source = [duration |-> 1500, chunkMinutes |-> 10]
  /\ t_pc = "done"
  /\ Len(t_chunkTranscriptions) = 3

\* C8: when the duration cannot be probed or is zero, the audio branch never
\* returns a chunk list and no generation call is issued for the audio.
C8_ZeroDurationFails ==
  (~d_probe.ok \/ d_probe.duration = 0) =>
    /\ d_aud \notin {"call", "done"}
    /\ "audio" \notin Range(d_calls)
    /\ "merge" \notin Range(d_calls)

\* C9: for a positive duration every screenshot timestamp lies strictly
\* between 1% and 99% of the duration and consecutive timestamps are equally
\* spaced, in extractVideoScreenshots and in generateScreenshots.
C9_TimestampsStrictlyInside ==
  s_duration > 0 =>
    /\ \A k \in 1..Len(s_screenshots) :
         /\ FLess(Num(s_duration, 100), s_screenshots[k].timestamp)
         /\ FLess(s_screenshots[k].timestamp, Num(99 * s_duration, 100))
    /\ \A k \in 2..(Len(s_screenshots) - 1) :
         FEq(FSub(s_screenshots[k + 1].timestamp, s_screenshots[k].timestamp),
             FSub(s_screenshots[k].timestamp, s_screenshots[k - 1].timestamp))
    /\ \A k \in 1..Len(s_paths) :
         /\ FLess(Num(s_duration, 100), s_paths[k])
         /\ FLess(s_paths[k], Num(99 * s_duration, 100))
    /\ \A k \in 2..(Len(s_paths) - 1) :
         FEq(FSub(s_paths[k + 1], s_paths[k]), FSub(s_paths[k], s_paths[k - 1]))

\* C10: when exactly one branch of the description of a video of positive
\* duration fails and the other has produced its output, generateDescription
\* does not fail: the merge call can still be issued.
C10_SurvivingBranchIsMerged ==
  (d_isVideo /\ d_probe.ok /\ d_probe.duration > 0
   /\ ( (d_img = "failed" /\ d_aud = "done")
                  \/ (d_img = "done" /\ d_aud = "failed") )) =>
    d_main # "thrown"

(***************************************************************************)
(* generateReport                                                          *)
(***************************************************************************)
\* the lines of doc that open a section ("## <title>"), as their titles
SectionHeadings(doc) ==
  LET heads == SelectSeq(SplitLines(doc),
                         LAMBDA l : Len(l) > 3 /\ SubSeq(l, 1, 3) = SectionPrefix) IN
  [ k \in 1..Len(heads) |-> SubSeq(heads[k], 4, Len(heads[k])) ]

\* the text of the j-th section of doc: from its heading line to the line
\* before the next heading line
SectionSpan(doc, j) ==
  LET heads == { i \in 1..(Len(doc) - 3) :
                   /\ i = 1 \/ doc[i - 1] = NL
                   /\ SubSeq(doc, i, i + 2) = SectionPrefix
                   /\ doc[i + 3] # NL } IN
  IF Cardinality(heads) < j THEN <<>>
  ELSE LET first == CHOOSE i \in heads : Cardinality({ m \in heads : m < i }) = j - 1
           later == { i \in heads : i > first } IN
       SubSeq(doc, first,
              IF later = {} THEN Len(doc)
              ELSE (CHOOSE i \in later : \A m \in later : i <= m) - 1)

\* the calls issued for section k
SectionCalls(k, kind) ==
  { c \in 1..Len(r_calls) : r_calls[c].section = k /\ r_calls[c].kind = kind }

\* the body that was written for section k
WrittenBody(k) ==
  SubSeq(r_sectionContents[k], Len(SectionPrefix) + Len(r_headings[k]) + 3,
         Len(r_sectionContents[k]))

\* C11: when generateReport returns, the report has exactly one section per
\* outline entry and the sections are in outline order, for any outline
\* (repeated titles, titles that are prefixes of one another, titles that
\* reappear in bodies as sub-headings) and any per-section outcomes.
C11_OneSectionPerOutlineEntry ==
  r_pc = "done" => SectionHeadings(r_file) = r_headings

\* C12: a section response that JSON.parse accepts is never taken as the
\* section's text: once it has been handled, the plain-text retry has been
\* issued for that section.
C12_JsonNeverAccepted ==
  \A c \in 1..Len(r_calls) :
    ( /\ r_calls[c].kind = "section"
      /\ ~r_calls[c].response.error
      /\ JsonParses(r_calls[c].response.text)
      /\ (c < Len(r_calls) \/ r_pc # "first") )
    => SectionCalls(r_calls[c].section, "retry") # {}

\* every section whose first body was rejected got exactly one retry, and
\* what was written is a validated body or the placeholder
RetriedOnceAndWrittenValid(k) ==
  LET first == r_calls[CHOOSE c \in SectionCalls(k, "section") : TRUE].response IN
  /\ Cardinality(SectionCalls(k, "section")) = 1
  /\ (~first.error /\ ~isValidSectionContent(first.text))
       => Cardinality(SectionCalls(k, "retry")) = 1
  /\ WrittenBody(k) = ErrorPlaceholder \/ isValidSectionContent(WrittenBody(k))

C14_NoSectionsWithoutOutline ==
  ( /\ r_calls # <<>>
    /\ LET resp == r_calls[1].response IN
       resp.error \/ ~JsonParses(resp.text) \/ ~HasSections(resp.text) )
  => /\ Len(r_calls) = 1
     /\ r_pc \in {"headings", "thrown"}
     /\ r_sectionContents = <<>>
     /\ SectionHeadings(r_file) = <<>>

\* generateReport has thrown on an exhausted headings call
C14_Witness ==
  /\ r_pc = "thrown"
  /\ r_calls[1].response.error
  /\ r_steps = <<"initial_prompt", "error">>
  /\ r_file = ReportInitialContent

\* C15: when the fill of a section resolves, updateReportSection leaves the
\* heading and the body of every other section of the visible report
\* unchanged.
C15_OnlyOwnSpanOverwritten ==
  [][ (r_pc \in {"first", "retry"} /\ r_pc' = "loop")
      => \A j \in 1..Len(r_headings) :
           j # r_i + 1 => SectionSpan(r_file', j) = SectionSpan(r_file, j) ]_vars

(***************************************************************************)
(* Chunked upload                                                          *)
(***************************************************************************)
\* the complete flag of a session, as upload-chunk computes it
SessionComplete(uploadStatus) ==
  uploadStatus.receivedChunks = uploadStatus.totalChunks

\* C16: a delivery that stores no new part index is a no-op for the session:
\* receivedChunks is unchanged and the complete flag does not go from true
\* back to false.
C16_DuplicatePartIsNoOp ==
  [][ \A jobId \in DOMAIN u_activeUploads \cap DOMAIN u_activeUploads' :
        DOMAIN u_activeUploads'[jobId].chunks = DOMAIN u_activeUploads[jobId].chunks
        => /\ u_activeUploads'[jobId].receivedChunks
                = u_activeUploads[jobId].receivedChunks
           /\ SessionComplete(u_activeUploads[jobId])
                => SessionComplete(u_activeUploads'[jobId]) ]_vars

\* C17: for a session whose parts are delivered with their indexes
\* 0..n-1 and the part count n of init-upload, upload-chunk answers complete
\* only when every index 0..n-1 has been stored.
C17_CompleteOnlyWhenAllStored ==
  ( /\ u_reply.op = "chunk"
    /\ u_reply.complete
    /\ u_reply.jobId \in DOMAIN u_activeUploads
    /\ LET uploadStatus == u_activeUploads[u_reply.jobId] IN
       /\ u_reply.totalChunks = CeilDiv(uploadStatus.fileSize, UploadPartSize)
       /\ DOMAIN uploadStatus.chunks \subseteq 0..(u_reply.totalChunks - 1) )
  => \A i \in 0..(u_reply.totalChunks - 1) :
       i \in DOMAIN u_activeUploads[u_reply.jobId].chunks

\* C18: an init-upload that declares more than the ceiling is rejected (413,
\* or 400 when the name or the type is missing) and creates no session, no
\* directory and no timer; an upload-chunk for an id without a session is
\* answered 404 and stores nothing.
C18_OversizeRejectedBeforeBytes ==
  [][ /\ ( /\ u_reply' # u_reply
           /\ u_reply'.op = "init"
           /\ u_reply'.fileSize > MaxFileSize )
         => /\ u_reply'.status \in {400, 413}
            /\ u_reply'.jobId = "none"
            /\ UNCHANGED << u_activeUploads, u_dirs, u_timers >>
      /\ ( /\ u_reply' # u_reply
           /\ u_reply'.op = "chunk"
           /\ u_reply'.jobId \notin DOMAIN u_activeUploads )
         => /\ u_reply'.status = 404
            /\ UNCHANGED << u_activeUploads, u_dirs, u_timers >> ]_vars

\* an oversize init-upload has been answered 413 and nothing exists
C18_Witness ==
  /\ u_reply.op = "init"
  /\ u_reply.fileSize = MaxFileSize + 1
  /\ u_reply.status = 413
  /\ u_activeUploads = <<>>
  /\ u_dirs = <<>>
  /\ u_timers = <<>>

\* C19: a session whose cleanup timer has run is no longer in activeUploads,
\* and a session that upload-chunk has answered complete has been removed
\* from activeUploads.
C19_RemovedOnCompletionOrTimeout ==
  /\ \A jobId \in DOMAIN u_timers :
       u_timers[jobId] < 0 => jobId \notin DOMAIN u_activeUploads
  /\ (u_reply.op = "chunk" /\ u_reply.complete)
       => u_reply.jobId \notin DOMAIN u_activeUploads

(***************************************************************************)
(* One job                                                                 *)
(***************************************************************************)
\* the place of a status in the stage order, 0 for any other status
StageRank(status) ==
  CASE status = "processing" -> 1
    [] status = "description_complete" -> 2
    [] status = "transcription_complete" -> 3
    [] status = "completed" -> 4
    [] OTHER -> 0

\* C20: in what the client sees of one job, events and polls together, a
\* status of the stage order is never followed by an earlier one.
C20_StatusesMonotonic ==
  \A a, b \in 1..Len(j_observed) :
    ( /\ a < b
      /\ StageRank(j_observed[a].status) > 0
      /\ StageRank(j_observed[b].status) > 0 )
    => StageRank(j_observed[a].status) <= StageRank(j_observed[b].status)

\* a streamed job: every stage status was pushed, then 'completed' was polled
C20_Witness ==
  /\ j_pc = "done"
  /\ \A r \in 1..4 : \E k \in 1..Len(j_observed) :
       j_observed[k].via = "push" /\ StageRank(j_observed[k].status) = r
  /\ j_observed[Len(j_observed)] = Observed("poll", "completed")
  /\ \E k \in 1..Len(j_observed) : j_observed[k] = Observed("poll", "NOT_FOUND")

\* C21: when a streamed job has ended, exactly one event of the stream has the
\* status completed or failed, and it is the last event of the stream.
C21_OneTerminalEventLast ==
  (j_streamResponse /\ j_pc \in {"done", "failed"}) =>
    /\ Cardinality({ k \in 1..Len(j_events) : j_events[k] \in {"completed", "failed"} }) = 1
    /\ j_events[Len(j_events)] \in {"completed", "failed"}

\* C22: a connected client that polls right after an event of the stream gets
\* the status that event carried.
C22_PollAgreesWithLastPush ==
  \A k \in 2..Len(j_observed) :
    ( /\ j_connected
      /\ j_observed[k].via = "poll"
      /\ j_observed[k - 1].via = "push" )
    => j_observed[k].status = j_observed[k - 1].status

\* C23: when the background task of a submitted job has ended, in either mode,
\* the job record the poll endpoint returns has the status completed or failed.
C23_EndedJobIsTerminal ==
  j_pc \in {"done", "failed", "returned"} =>
    \/ j_result = "completed"
    \/ j_result = "none" /\ j_error = "failed"

C25_EarlierArtifactsDownloadable ==
  [][ (J_FetchResult /\ j_pc = "failed" /\ j_fetch'.type \in j_files)
        => j_fetch'.status = 200 ]_vars

\* C26: after the client has dropped the stream the next stage of the job is
\* still taken, and a job that ends without a failure has written every stage
\* output, result.json with the status completed and the final event.
C26_DisconnectDoesNotStopJob ==
  /\ ( /\ j_streamResponse
       /\ ~j_connected
       /\ j_pc \in {"mediaInfo", "screenshots", "description", "transcription"} )
     => ENABLED J_StageDone
  /\ (j_streamResponse /\ ~j_connected /\ j_pc = "report") => ENABLED J_Complete
  /\ j_pc = "done" =>
       /\ j_result = "completed"
       /\ {"description", "transcription"} \subseteq j_files
       /\ j_events[Len(j_events)] \in {"completed", "fully_completed"}

\* the client left after the first event and the job completed without it
C26_Witness ==
  /\ j_pc = "done"
  /\ ~j_connected
  /\ j_result = "completed"
  /\ Len(j_events) > 3
  /\ \A k \in 1..Len(j_observed) :
       j_observed[k].via = "push" => j_observed[k].status = "processing"

\* C29: when the request supplies an apiKey, every generation call of the job
\* is made with that key.
C29_RequestKeyUsed ==
  j_request.apiKey # "" => j_keysUsed \subseteq {j_request.apiKey}

\* C30: a submission without a file, with an unknown tier, or with a
\* screenshotCount that is not a number from 1 to 20 is answered with an error
\* status, gets no job id and leaves no job directory.
C30_InvalidSubmissionRejected ==
  ( /\ j_pc \notin {"idle", "request"}
    /\ \/ ~j_request.hasFile
       \/ j_request.tier \notin ValidTiers
       \/ ParseInt(j_request.screenshotCount).nan
       \/ ParseInt(j_request.screenshotCount).value < 1
       \/ ParseInt(j_request.screenshotCount).value > 20 )
  => /\ j_reply.status >= 400
     /\ j_reply.jobId = "none"
     /\ ~j_dir

(***************************************************************************)
(* generateWithGemini                                                      *)
(***************************************************************************)
\* C27: every generateWithGemini call returns: no attempt waits without a
\* bound.
C27_CallReturns == <>(g_pc = "returned")

(***************************************************************************)
(* cleanupOldJobs                                                          *)
(***************************************************************************)
\* C28: a run of cleanupOldJobs removes exactly the job directories that were
\* made more than JOB_RETENTION_DAYS days before it.
C28_CleanupFollowsRetention ==
  [][ K_Cleanup =>
        \A dir \in k_dirs :
          (k_now - k_created[dir] > JOB_RETENTION_DAYS) <=> (dir \notin k_dirs') ]_vars

\* C31 (as claimed): when an attempt has ended, by return or by throw,
\* deletion has been requested for every file the attempt uploaded.
C31_UploadedFilesDeleted ==
  a_pc \in {"returned", "thrown"} => a_uploadedFiles \subseteq a_deleteRequested

\* C32: for every client ip and every window the limiter has opened, at most
\* maxRequestsPerWindow requests that are not for /health were admitted from
\* the opening of the window to its reset time, windowMs later; a request that
\* is not for /health is answered 429 exactly when more than
\* maxRequestsPerWindow such requests have come from its ip in the current
\* window; an entry whose reset time has passed is replaced by the next
\* request; a request for /health is admitted and counted nowhere.
C32_AtMostTenPerWindow ==
  /\ \A ip \in ClientIps : \A start \in l_windows[ip] :
       CountBetween(l_admitted, ip, start, start + windowMs) <= maxRequestsPerWindow
  /\ \A ip \in DOMAIN l_requestCounts :
       /\ l_requestCounts[ip].resetTime - windowMs \in l_windows[ip]
       /\ l_requestCounts[ip].count
            = CountBetween(l_seen, ip, l_requestCounts[ip].resetTime - windowMs, l_now)
  /\ l_last.path = "/health" => l_last.status = 200
  /\ l_last.path = "/api/jobs" =>
       /\ l_last.ip \in DOMAIN l_requestCounts
       /\ l_requestCounts[l_last.ip].resetTime >= l_last.now
       /\ l_last.status
            = IF CountBetween(l_seen, l_last.ip,
                              l_requestCounts[l_last.ip].resetTime - windowMs,
                              l_last.now)
                 > maxRequestsPerWindow
              THEN 429 ELSE 200

\* C32 witness: an eleventh request of a window was answered 429 after ten
\* were admitted, in a window that replaced an entry whose reset time had
\* passed
C32_Witness ==
  /\ l_last.status = 429
  /\ Cardinality(l_windows[l_last.ip]) = 2
  /\ CountBetween(l_admitted, l_last.ip,
                  l_requestCounts[l_last.ip].resetTime - windowMs, l_now)
       = maxRequestsPerWindow

\* C33: when the JSON of a completed event is longer than the frame
\* threshold, the events written carry the full text of every artifact of the
\* event - in the first event when the text is short, otherwise in the
\* content event of the artifact - and the last event written is a completion
\* event that carries no artifact text.
C33_LargeResultDeliveredInFull ==
  (e_pc = "written" /\ e_data.status = "completed"
     /\ JsonLength(e_data) > FrameThreshold) =>
    /\ \A a \in DOMAIN e_data.texts :
         IF TextLength(e_data.texts[a]) <= FieldThreshold
         THEN /\ a \in DOMAIN e_written[1].texts
              /\ e_written[1].texts[a] = e_data.texts[a]
         ELSE \E k \in 2..Len(e_written) :
                /\ e_written[k].status = a \o "_content"
                /\ e_written[k].texts = (a :> e_data.texts[a])
    /\ e_written[Len(e_written)].status = "fully_completed"
    /\ e_written[Len(e_written)].texts = <<>>
    /\ \A k \in 1..(Len(e_written) - 1) : e_written[k].status # "fully_completed"

\* C33 witness: a large completed event with a short description, a long
\* transcription and a long report has been written
C33_Witness ==
  /\ e_pc = "written"
  /\ e_data.status = "completed"
  /\ JsonLength(e_data) > FrameThreshold
  /\ DOMAIN e_data.texts = {"description", "transcription", "report"}
  /\ TextLength(e_data.texts["description"]) <= FieldThreshold
  /\ TextLength(e_data.texts["transcription"]) > FieldThreshold
  /\ TextLength(e_data.texts["report"]) > FieldThreshold

\* C34 (as claimed): for every chunkMinutes the submit endpoint accepts, with
\* the default overlap included, the loop of processAudioFile runs up to a
\* finite number of chunks, so that processAudioFile comes to an end, and the
\* list it returns for a source of positive duration is not empty.
C34_ChunkingTerminates ==
  /\ c_pc = "loop" =>
       \/ c_totalChunks.kind = "nan" /\ c_i = 0
       \/ c_totalChunks.kind = "num" /\ c_i * c_totalChunks.den <= c_totalChunks.num
  /\ (c_pc = "returned" /\ c_probe.duration > 0) => c_chunks # <<>>

\* C37 (as claimed): once generateDescription has thrown, and the job is
\* reported as failed, no step issues another generation call.
C37_NoCallAfterFailure ==
  [][d_main = "thrown" => d_calls' = d_calls]_vars

\* C38 (as claimed): the expected part count of a session is the one
\* init-upload computed from the file size, and no later request changes it.
C38_PartCountFixedAtInit ==
  [][ \A jobId \in DOMAIN u_activeUploads \cap DOMAIN u_activeUploads' :
        /\ u_activeUploads'[jobId].totalChunks = u_activeUploads[jobId].totalChunks
        /\ u_activeUploads'[jobId].totalChunks
             = CeilDiv(u_activeUploads'[jobId].fileSize, UploadPartSize) ]_vars

\* C39 (as claimed): a session that has every part of its file, and for which
\* upload-chunk has answered complete, keeps its entry and its directory in
\* every later step, the cleanup timer included.
C39_CompleteUploadNotPurged ==
  [][ \A jobId \in DOMAIN u_activeUploads :
        ( /\ u_reply.op = "chunk"
          /\ u_reply.jobId = jobId
          /\ u_reply.complete
          /\ u_activeUploads[jobId].receivedChunks
               = CeilDiv(u_activeUploads[jobId].fileSize, UploadPartSize)
          /\ DOMAIN u_activeUploads[jobId].chunks
               = 0..(CeilDiv(u_activeUploads[jobId].fileSize, UploadPartSize) - 1) )
        => /\ jobId \in DOMAIN u_activeUploads'
           /\ jobId \in DOMAIN u_dirs' ]_vars

\* C35 (as claimed): when the transcription of a job has been made, the
\* description stage has run exactly once, and the description delivered to
\* the client and saved is the one placed in the transcription prompts.
C35_OneDescriptionPerJob ==
  p_pc \in {"report", "done"} =>
    /\ Len(p_runs) = 1
    /\ p_prompted = p_delivered

\* C36 (as claimed): every parameter a stage has run with is the value the
\* submit endpoint accepted, and the report stage has run exactly when the
\* report flag was accepted as true.
C36_AcceptedParametersUsed ==
  \A name \in DOMAIN p_used : p_used[name] = p_accepted[name]

====
